---- MODULE Spec2Model ----
(***************************************************************************)
(* CesiumCloth: the simulation worker (cloth-simulation-worker.ts), its    *)
(* command/event protocol (cloth-handshaking.ts) and the main-thread Cloth *)
(* object that owns a worker (cloth.ts).                                   *)
(*                                                                         *)
(* Two harnesses share the worker's actions.  In the "protocol" harness    *)
(* the worker script is alive from the start and any client posts          *)
(* commands to it.  In the "cloth" harness a Cloth object has been         *)
(* constructed; it spawns the worker, posts the commands and receives the  *)
(* worker's messages.                                                      *)
(*                                                                         *)
(* Coordinates are integers.  The corner points of a configuration are the *)
(* corners of an axis-aligned rectangle in the plane z = 0, so that every  *)
(* distance, interpolation and intersection of build() is exact.  The      *)
(* numerical content of the particle buffers after a simulation step is    *)
(* not part of this state machine: the buffers hold the values written by  *)
(* build() and by commands, and the field steps of a simulation counts the *)
(* simulation steps applied to them.                                       *)
(***************************************************************************)
EXTENDS Integers, Sequences, FiniteSets, TLC

VARIABLES
  harness,           \* "protocol" or "cloth"
  workerThread,      \* "none", "alive" or "terminated": the worker thread
  inbox,             \* commands posted to the worker, not yet handled
  gClothSimulation,  \* 0 (undefined) or the index in sims of the current one
  sims,              \* every ClothSimulation constructed by the worker
  task,              \* the timer callback the worker's event loop is running
  timerFires,        \* number of interval callbacks run so far
  outbox,            \* messages posted by the worker, not yet delivered
  events,            \* history: every message the worker has posted
  sent,              \* history: every command posted to the worker
  applied,           \* history: every command handled by onmessage
  lastRun,           \* history: last startStopSimulation applied to a simulation
  cloth,             \* the fields of the Cloth object
  fetchPending,      \* the texture fetch of the constructor has not resolved
  apiCalls,          \* number of calls of the Cloth's public command methods
  last,              \* history: the handler that ran last and the path it took
  calc               \* a function under study: its inputs, then its result

\* The worker, the Cloth and their histories
machineVars == <<harness, workerThread, inbox, gClothSimulation, sims, task,
                 timerFires, outbox, events, sent, applied, lastRun, cloth,
                 fetchPending, apiCalls, last>>

vars == <<machineVars, calc>>

workerVars == <<workerThread, inbox, gClothSimulation, sims, task, timerFires,
                outbox, events, sent, applied, lastRun>>

clothVars == <<cloth, fetchPending, apiCalls>>

---------------------------------------------------------------------------
(* Bounds of the model *)

MaxCells == 2
MaxCmds == 3
MaxCalls == 2
MaxBuilds == 2
MaxTimerFires == 1

\* Distance between two particles asked for by the configurations
Spacing == 2

---------------------------------------------------------------------------
(* Vectors and the geometry used by build() *)

ZERO == <<0, 0, 0>>

None == <<>>

Some(v) == <<v>>

\* JavaScript truthiness of an optional object or array field
Truthy(opt) == opt # None

RECURSIVE ISqrtFrom(_, _)
ISqrtFrom(n, r) == IF (r + 1) * (r + 1) > n THEN r ELSE ISqrtFrom(n, r + 1)

\* Math.sqrt on the integers of the model (exact on perfect squares)
ISqrt(n) == ISqrtFrom(n, 0)

Distance(a, b) ==
  ISqrt((b[1] - a[1]) * (b[1] - a[1]) + (b[2] - a[2]) * (b[2] - a[2])
        + (b[3] - a[3]) * (b[3] - a[3]))

\* Cartesian3.lerp(a, b, num/den)
Lerp(a, b, num, den) ==
  [i \in 1..3 |-> a[i] + ((b[i] - a[i]) * num) \div den]

\* mathjs intersect of the line w1-w2 with the line h1-h2, for a line w1-w2
\* of constant x and a line h1-h2 of constant y in one plane z; None when the
\* two lines are not of that form
Intersect(w1, w2, h1, h2) ==
  IF w1[1] = w2[1] /\ h1[2] = h2[2] /\ w1[3] = w2[3] /\ h1[3] = h2[3]
     /\ w1[3] = h1[3]
  THEN <<w1[1], h1[2], w1[3]>>
  ELSE None

\* Length of the height axis p1-p4 of the configurations: one cell
HeightAxisLength == Spacing

\* A configuration whose corners are p1 = 0, p2 on the x axis, p4 on the
\* y axis.  gravity and wind start at ZERO.  The optional boolean
\* connectingSecondaryNeighbors is "undefined", "true" or "false".
ClothConf(lw, lh) ==
  [p1 |-> ZERO, p2 |-> <<lw, 0, 0>>, p3 |-> <<lw, lh, 0>>, p4 |-> <<0, lh, 0>>,
   widthAxisParticleDistance |-> Spacing,
   heightAxisParticleDistance |-> Spacing,
   connectingSecondaryNeighbors |-> "undefined",
   gravity |-> ZERO, wind |-> ZERO]

Configs == {ClothConf(Spacing * k, HeightAxisLength) : k \in 1..MaxCells}

NoConf == ClothConf(0, 0)

---------------------------------------------------------------------------
(* Messages of cloth-handshaking.ts *)

\* A collision sphere.  speed and dt are in units of 1/SpeedDen.
SpeedDen == 4

Sphere1 ==
  [sphereCenter |-> <<0, 0, 8>>, sphereRadius |-> 2,
   sphereDestination |-> <<0, 0, 4>>, speed |-> 2, dt |-> 0, id |-> 0 - 1]

ParticleState(x, y, f, pos) ==
  [particleX |-> x, particleY |-> y, isFixed |-> f, newPosition |-> pos]

ClothForceAndCollisionMsg(g, w, cs, fp) ==
  [gravity |-> g, wind |-> w, collisionSpheres |-> cs, fixedParticles |-> fp]

NoUpd == ClothForceAndCollisionMsg(None, None, None, None)

WorkerMessage(c, conf, id, run, upd) ==
  [conf |-> conf, run |-> run, upd |-> upd, cmd |-> c, clothID |-> id]

BuildClothMsg(conf, id) == WorkerMessage("BuildCloth", conf, id, FALSE, NoUpd)

StartStopSimulationMsg(run) ==
  WorkerMessage("startStopSimulation", NoConf, 0, run, NoUpd)

UpdateMsg(upd) ==
  WorkerMessage("UpdateClothForceAndCollision", NoConf, 0, FALSE, upd)

Gravity1 == <<0, 0, 0 - 1>>

Wind1 == <<1, 0, 1>>

NewPos1 == <<5, 5, 5>>

\* The fixed-particle entries a client sends: inside the smallest grid,
\* past its last column, past its last row, and before the first column
FixedEntries ==
  { ParticleState(0, 0, TRUE, None),
    ParticleState(1, 1, TRUE, NewPos1),
    ParticleState(2, 0, TRUE, NewPos1),
    ParticleState(0, 2, TRUE, NewPos1),
    ParticleState(0 - 1, 0, TRUE, NewPos1) }

\* The partial updates a client sends: a field alone, and all together
Updates ==
  { ClothForceAndCollisionMsg(Gravity1, None, None, None),
    ClothForceAndCollisionMsg(None, None, Some(<<Sphere1>>), None),
    ClothForceAndCollisionMsg(ZERO, Wind1, Some(<<>>),
                              Some(<<ParticleState(1, 0, TRUE, NewPos1),
                                     ParticleState(0, 0, FALSE, None)>>)) }
  \cup { ClothForceAndCollisionMsg(None, None, None, Some(<<e>>)) :
           e \in FixedEntries }

\* The commands a client of the protocol posts; the n-th configuration is
\* built with clothID n - 1
RawCommands ==
  { BuildClothMsg(ClothConf(Spacing * k, HeightAxisLength), k - 1) :
      k \in 1..MaxCells }
  \cup { StartStopSimulationMsg(b) : b \in BOOLEAN }
  \cup { UpdateMsg(u) : u \in Updates }

---------------------------------------------------------------------------
(* ClothSimulation: cloth-simulation-worker.ts *)

\* getIndex(x, y) for a grid of the given width
getIndex(width, x, y) == y * (width * 3) + x * 3

\* build(): the grid dimensions
GridCount(conf, a, b, spacing) == (Distance(a, b) \div spacing) + 1

\* build(): the position of particle (px, py), None if the intersection
\* fails.  On an axis shorter than its particle distance the count before
\* the increment is 0 and the step 1 / 0: the interpolation parameter
\* Infinity * 0 is NaN, and intersect, whose last test compares the
\* coordinates of the two closest points, returns null.
BuildPosition(conf, nw, nh, px, py) ==
  IF nw = 1 \/ nh = 1 THEN None
  ELSE Intersect(Lerp(conf.p1, conf.p2, px, nw - 1),
                 Lerp(conf.p4, conf.p3, px, nw - 1),
                 Lerp(conf.p1, conf.p4, py, nh - 1),
                 Lerp(conf.p2, conf.p3, py, nh - 1))

\* build(): the center of the cloth, None if the intersection fails
BuildCenter(conf) ==
  Intersect(Lerp(conf.p1, conf.p2, 1, 2), Lerp(conf.p4, conf.p3, 1, 2),
            Lerp(conf.p1, conf.p4, 1, 2), Lerp(conf.p2, conf.p3, 1, 2))

BuildRadius(conf, c) ==
  (Distance(c, conf.p1) + Distance(c, conf.p2) + Distance(c, conf.p3)
   + Distance(c, conf.p4)) \div 4

\* new ClothSimulation(config, clothID): the fields after build().  The
\* fields runRequested, ticks, steps and encodedSteps are history: whether a
\* startStopSimulation(true) was applied, how many timer callbacks ran the
\* pipeline, how many simulation steps were applied to the position buffer
\* and how many had been when the high, low and normal buffers were written.
ClothSimulation(conf, id) ==
  LET nw == GridCount(conf, conf.p1, conf.p2, conf.widthAxisParticleDistance)
      nh == GridCount(conf, conf.p1, conf.p4, conf.heightAxisParticleDistance)
      c  == BuildCenter(conf)
      pos(n) == BuildPosition(conf, nw, nh, n % nw, n \div nw)
  IN [collisionSpheres |-> <<>>,
      clothID |-> id,
      canRun |-> TRUE,
      config |-> conf,
      center |-> IF c # None THEN c ELSE ZERO,
      radius |-> IF c # None THEN BuildRadius(conf, c) ELSE 1,
      nbParticlesWidth |-> nw,
      nbParticlesHeight |-> nh,
      vertexBufferCount |-> nw * 3 * nh,
      particlePositions |->
        [i \in 0..(nw * 3 * nh - 1) |->
           IF pos(i \div 3) # None THEN pos(i \div 3)[(i % 3) + 1] ELSE 0],
      isPositionFixed |->
        [k \in {3 * n : n \in {m \in 0..(nw * nh - 1) : pos(m) # None}} |->
           FALSE],
      windNoiseStep |-> 0,
      runRequested |-> FALSE,
      ticks |-> 0,
      steps |-> 0,
      encodedSteps |-> 0]

\* isPositionFixed[idx] read as a condition: an absent element is falsy
IsFixed(sim, idx) ==
  idx \in DOMAIN sim.isPositionFixed /\ sim.isPositionFixed[idx]

\* setFixed(idx, isFixed, newPosition): isPositionFixed is an Array, which
\* takes an element at any index; particlePositions is a Float64Array, which
\* ignores a write outside 0..length-1
setFixed(sim, idx, isFixed, newPosition) ==
  [sim EXCEPT
     !.isPositionFixed =
        [k \in (DOMAIN sim.isPositionFixed) \cup {idx} |->
           IF k = idx THEN isFixed ELSE sim.isPositionFixed[k]],
     !.particlePositions =
        IF Truthy(newPosition)
        THEN [i \in DOMAIN sim.particlePositions |->
                IF i \in idx..(idx + 2) THEN newPosition[i - idx + 1]
                ELSE sim.particlePositions[i]]
        ELSE sim.particlePositions]

RECURSIVE ApplyFixed(_, _)
\* fixedParticles.forEach(p => setFixed(getIndex(p.particleX, p.particleY), ...))
ApplyFixed(sim, fp) ==
  IF fp = <<>> THEN sim
  ELSE ApplyFixed(setFixed(sim,
                           getIndex(sim.nbParticlesWidth, fp[1].particleX,
                                    fp[1].particleY),
                           fp[1].isFixed, fp[1].newPosition),
                  Tail(fp))

\* updateClothForceAndCollision(msg)
updateClothForceAndCollision(sim, msg) ==
  LET s1 == IF Truthy(msg.gravity)
            THEN [sim EXCEPT !.config.gravity = msg.gravity] ELSE sim
      s2 == IF Truthy(msg.wind)
            THEN [s1 EXCEPT !.config.wind = msg.wind] ELSE s1
      s3 == IF Truthy(msg.collisionSpheres)
            THEN [s2 EXCEPT !.collisionSpheres = msg.collisionSpheres[1]]
            ELSE s2
  IN IF Truthy(msg.fixedParticles) THEN ApplyFixed(s3, msg.fixedParticles[1])
     ELSE s3

\* A ClothBuilded message with the two grid dimensions exchanged
sendOncreatedMsg_swapped(sim, s) ==
  [collisionSpheres |-> <<>>, cmd |-> "ClothBuilded",
   clothID |-> sim.clothID, center |-> sim.center, radius |-> sim.radius,
   nbParticlesWidth |-> sim.nbParticlesHeight,
   nbParticlesHeight |-> sim.nbParticlesWidth,
   particlePositions |-> s, frame |-> sim.steps]

\* sendOncreatedMsg(): the ClothBuilded message of simulation number s; the
\* shared buffers are identified by the number of their simulation.  The
\* field frame of a message is history: the number of simulation steps
\* applied when the message was posted.
sendOncreatedMsg(sim, s) ==
  [collisionSpheres |-> <<>>, cmd |-> "ClothBuilded",
   clothID |-> sim.clothID, center |-> sim.center, radius |-> sim.radius,
   nbParticlesWidth |-> sim.nbParticlesWidth,
   nbParticlesHeight |-> sim.nbParticlesHeight,
   particlePositions |-> s, frame |-> sim.steps]

\* refreshCloth(): every sphere gets its position in the list as id
AssignSphereIds(spheres) ==
  [i \in 1..Len(spheres) |-> [spheres[i] EXCEPT !.id = i - 1]]

\* refreshCloth(): the RedrawCloth message
RedrawClothMsg(sim, s) ==
  [collisionSpheres |-> sim.collisionSpheres, cmd |-> "RedrawCloth",
   clothID |-> sim.clothID, center |-> ZERO, radius |-> 0,
   nbParticlesWidth |-> sim.nbParticlesWidth,
   nbParticlesHeight |-> sim.nbParticlesHeight,
   particlePositions |-> s, frame |-> sim.steps]

\* addWindNoise(): the counter after the call and whether noise was added
addWindNoise(step) ==
  IF step % 1000 = 0 THEN [step |-> 0, noisy |-> TRUE]
  ELSE [step |-> step + 1, noisy |-> FALSE]

\* computeSphereCollision(s): the sphere moves toward its destination by the
\* progress dt, then dt advances by speed
MoveSphere(sp) ==
  [sp EXCEPT !.sphereCenter = Lerp(sp.sphereCenter, sp.sphereDestination,
                                   sp.dt, SpeedDen),
             !.dt = sp.dt + sp.speed]

---------------------------------------------------------------------------
(* The worker: onmessage and the interval callback *)

NoCmdState ==
  [gravity |-> ZERO, wind |-> ZERO, canRun |-> FALSE, isPositionFixed |-> <<>>]

\* What the commands set in a simulation and the steps of a tick read
CmdState(sim) ==
  [gravity |-> sim.config.gravity, wind |-> sim.config.wind,
   canRun |-> sim.canRun, isPositionFixed |-> sim.isPositionFixed]

\* No timer callback is running.  task.seen and task.cmd are history: the
\* number of commands applied and the command state when the tick started.
IdleTask == [cmd |-> NoCmdState, sim |-> 0, stage |-> "idle", seen |-> 0]

\* An event loop that would dispatch onmessage inside a running callback
OnMessageEnabled_preempting == TRUE

\* onmessage is an event-loop task: the loop dispatches it only when the
\* task it is running, if any, has returned
OnMessageEnabled == task.stage = "idle"

\* likewise for the callback of setInterval
TimerEnabled == task.stage = "idle"

\* ctxWorker.postMessage(e)
Posted(e) ==
  /\ events' = events \o e
  /\ outbox' = IF harness = "cloth" THEN outbox \o e ELSE outbox

Handled(m, ign) ==
  /\ inbox' = Tail(inbox)
  /\ applied' = Append(applied, m)
  /\ last' = [op |-> m.cmd, ignored |-> ign]

\* case WorkerCmd.BuildCloth: new ClothSimulation(conf, clothID), whose
\* constructor builds, posts ClothBuilded, refreshes and starts the interval
OnMessageBuildCloth ==
  /\ workerThread = "alive" /\ OnMessageEnabled
  /\ inbox # <<>> /\ Head(inbox).cmd = "BuildCloth"
  /\ LET m == Head(inbox)
         s == Len(sims) + 1
         sim == ClothSimulation(m.conf, m.clothID)
     IN /\ sims' = Append(sims, sim)
        /\ gClothSimulation' = s
        /\ Posted(<<sendOncreatedMsg(sim, s), RedrawClothMsg(sim, s)>>)
        /\ Handled(m, FALSE)
  /\ UNCHANGED <<calc, harness, workerThread, task, timerFires, sent, lastRun,
                 clothVars>>

\* case WorkerCmd.UpdateClothForceAndCollision
OnMessageUpdate ==
  /\ workerThread = "alive" /\ OnMessageEnabled
  /\ inbox # <<>> /\ Head(inbox).cmd = "UpdateClothForceAndCollision"
  /\ LET m == Head(inbox)
     IN /\ sims' = IF gClothSimulation # 0
                   THEN [sims EXCEPT ![gClothSimulation] =
                           updateClothForceAndCollision(@, m.upd)]
                   ELSE sims
        /\ Handled(m, gClothSimulation = 0)
  /\ UNCHANGED <<calc, harness, workerThread, gClothSimulation, task, timerFires,
                 outbox, events, sent, lastRun, clothVars>>

\* case WorkerCmd.startStopSimulation
OnMessageStartStop ==
  /\ workerThread = "alive" /\ OnMessageEnabled
  /\ inbox # <<>> /\ Head(inbox).cmd = "startStopSimulation"
  /\ LET m == Head(inbox)
     IN /\ sims' = IF gClothSimulation # 0
                   THEN [sims EXCEPT ![gClothSimulation].canRun = m.run,
                                     ![gClothSimulation].runRequested =
                                        @ \/ m.run]
                   ELSE sims
        /\ lastRun' = IF gClothSimulation = 0 THEN lastRun
                      ELSE IF m.run THEN "run" ELSE "stop"
        /\ Handled(m, gClothSimulation = 0)
  /\ UNCHANGED <<calc, harness, workerThread, gClothSimulation, task, timerFires,
                 outbox, events, sent, clothVars>>

\* The interval callback of simulation s finds canRun set and starts a tick
TimerFireRun(s) ==
  /\ workerThread = "alive" /\ TimerEnabled
  /\ timerFires < MaxTimerFires
  /\ sims[s].canRun
  /\ timerFires' = timerFires + 1
  /\ sims' = [sims EXCEPT ![s].ticks = @ + 1]
  /\ task' = [cmd |-> CmdState(sims[s]), sim |-> s, stage |-> "forces",
              seen |-> Len(applied)]
  /\ last' = [op |-> "tick", ignored |-> FALSE]
  /\ UNCHANGED <<calc, harness, workerThread, inbox, gClothSimulation, outbox,
                 events, sent, applied, lastRun, clothVars>>

\* The interval callback of simulation s finds canRun unset and returns
TimerFireSkip(s) ==
  /\ workerThread = "alive" /\ TimerEnabled
  /\ timerFires < MaxTimerFires
  /\ ~sims[s].canRun
  /\ timerFires' = timerFires + 1
  /\ last' = [op |-> "tick", ignored |-> TRUE]
  /\ UNCHANGED <<calc, harness, workerThread, inbox, gClothSimulation, sims, task,
                 outbox, events, sent, applied, lastRun, clothVars>>

\* An updateSimulation() that goes from the forces to the collisions,
\* without simulationStep()
AddForces_skipsSimulationStep ==
  /\ workerThread = "alive" /\ task.stage = "forces"
  /\ sims' = [sims EXCEPT ![task.sim].windNoiseStep =
                IF sims[task.sim].config.wind = ZERO THEN @
                ELSE addWindNoise(@).step]
  /\ task' = [task EXCEPT !.stage = "collide"]
  /\ UNCHANGED <<calc, harness, workerThread, inbox, gClothSimulation, timerFires,
                 outbox, events, sent, applied, lastRun, clothVars, last>>

\* updateSimulation(): addGravity() and windForce()
AddForces ==
  /\ workerThread = "alive" /\ task.stage = "forces"
  /\ sims' = [sims EXCEPT ![task.sim].windNoiseStep =
                IF sims[task.sim].config.wind = ZERO THEN @
                ELSE addWindNoise(@).step]
  /\ task' = [task EXCEPT !.stage = "solve"]
  /\ UNCHANGED <<calc, harness, workerThread, inbox, gClothSimulation, timerFires,
                 outbox, events, sent, applied, lastRun, clothVars, last>>

\* updateSimulation(): simulationStep()
SimulationStep ==
  /\ workerThread = "alive" /\ task.stage = "solve"
  /\ sims' = [sims EXCEPT ![task.sim].steps = @ + 1]
  /\ task' = [task EXCEPT !.stage = "collide"]
  /\ UNCHANGED <<calc, harness, workerThread, inbox, gClothSimulation, timerFires,
                 outbox, events, sent, applied, lastRun, clothVars, last>>

\* updateSimulation(): computeSphereCollision for every sphere
Collisions ==
  /\ workerThread = "alive" /\ task.stage = "collide"
  /\ sims' = [sims EXCEPT ![task.sim].collisionSpheres =
                [i \in 1..Len(@) |-> MoveSphere(@[i])]]
  /\ task' = [task EXCEPT !.stage = "refresh"]
  /\ UNCHANGED <<calc, harness, workerThread, inbox, gClothSimulation, timerFires,
                 outbox, events, sent, applied, lastRun, clothVars, last>>

\* refreshCloth() at the end of the tick: the normals and the encoded
\* positions are written in the shared buffers, then RedrawCloth is posted
RefreshCloth ==
  /\ workerThread = "alive" /\ task.stage = "refresh"
  /\ LET sim == [sims[task.sim] EXCEPT
                   !.encodedSteps = sims[task.sim].steps,
                   !.collisionSpheres = AssignSphereIds(@)]
     IN /\ sims' = [sims EXCEPT ![task.sim] = sim]
        /\ Posted(<<RedrawClothMsg(sim, task.sim)>>)
  /\ task' = IdleTask
  /\ UNCHANGED <<calc, harness, workerThread, inbox, gClothSimulation, timerFires,
                 sent, applied, lastRun, clothVars, last>>

\* A client of the protocol posts a command to the worker
PostRaw(m) ==
  /\ harness = "protocol"
  /\ Len(sent) < MaxCmds
  /\ m.cmd = "BuildCloth" =>
       Cardinality({i \in 1..Len(sent) : sent[i].cmd = "BuildCloth"})
         < MaxBuilds
  /\ inbox' = Append(inbox, m)
  /\ sent' = Append(sent, m)
  /\ last' = [op |-> "post", ignored |-> FALSE]
  /\ UNCHANGED <<calc, harness, workerThread, gClothSimulation, sims, task,
                 timerFires, outbox, events, applied, lastRun, clothVars>>

---------------------------------------------------------------------------
(* Cloth: cloth.ts *)

\* The configuration and the identifier of the Cloth of the "cloth" harness
TheConf == ClothConf(Spacing * MaxCells, HeightAxisLength)

\* No RedrawCloth message has been handled
NoRead == [emitted |-> 0 - 1, positions |-> 0 - 1, encoded |-> 0 - 1]

\* The fields of a Cloth after its constructor.  onCreatedEvent is
\* "undefined", or says what the caller's function returns; onCreatedCalls
\* and primitivesAdded are history; scenePrimitives is the number of cloth
\* primitives in viewer.scene.primitives; frameRead is history: what the
\* last RedrawCloth handled gave to read; boundingSphere is the bounding
\* sphere of the ClothPrimitive created last, of radius 0 before the first.
NewCloth(hasWorker, onCreated) ==
  [clothID |-> 0, config |-> TheConf, center |-> ZERO,
   radius |-> 1, nbParticlesWidth |-> 0,
   nbParticlesHeight |-> 0, _destroyed |-> FALSE,
   worker |-> hasWorker, primitive |-> FALSE,
   onCreatedEvent |-> onCreated, onCreatedCalls |-> 0,
   scenePrimitives |-> 0, primitivesAdded |-> 0, frameRead |-> NoRead,
   boundingSphere |-> [center |-> ZERO, radius |-> 0]]

\* What onCreatedEvent returns when it returns a message
OnCreatedMsg ==
  ClothForceAndCollisionMsg(None, None, None,
                            Some(<<ParticleState(0, 0, TRUE, None)>>))

\* The updates the owner of the Cloth sends
ClothUpdates ==
  { ClothForceAndCollisionMsg(None, Wind1, None, None),
    ClothForceAndCollisionMsg(ZERO, ZERO, Some(<<>>), None) }

\* The command methods without their first early return
CanPost_noDestroyedCheck(c) == c.worker

\* startOrStopSimulationLoop and updateClothForceAndCollision post only
\* past their two early returns
CanPost(c) == ~c._destroyed /\ c.worker

\* onWorkerMessage without its early return
ReturnsEarly_never(c) == FALSE

\* onWorkerMessage starts with: if (this._destroyed) return
ReturnsEarly(c) == c._destroyed

\* spawnWorker(): the texture fetch of the constructor resolves
FetchImageDone ==
  /\ harness = "cloth" /\ fetchPending
  /\ fetchPending' = FALSE
  /\ workerThread' = "alive"
  /\ cloth' = [cloth EXCEPT !.worker = TRUE]
  /\ inbox' = Append(inbox, BuildClothMsg(cloth.config, cloth.clothID))
  /\ sent' = Append(sent, BuildClothMsg(cloth.config, cloth.clothID))
  /\ last' = [op |-> "spawnWorker", ignored |-> FALSE]
  /\ UNCHANGED <<calc, harness, gClothSimulation, sims, task, timerFires, outbox,
                 events, applied, lastRun, apiCalls>>

\* destroy()
Destroy ==
  /\ harness = "cloth"
  /\ cloth' = [cloth EXCEPT
                 !._destroyed = TRUE,
                 !.worker = FALSE,
                 !.primitive = FALSE,
                 !.scenePrimitives = IF cloth.primitive THEN @ - 1 ELSE @]
  /\ workerThread' = IF cloth.worker THEN "terminated" ELSE workerThread
  /\ last' = [op |-> "destroy", ignored |-> FALSE]
  /\ UNCHANGED <<calc, harness, inbox, gClothSimulation, sims, task, timerFires,
                 outbox, events, sent, applied, lastRun, fetchPending,
                 apiCalls>>

\* A command method of the Cloth posts m unless it returns early
ClothPost(m, op) ==
  /\ harness = "cloth"
  /\ apiCalls < MaxCalls
  /\ apiCalls' = apiCalls + 1
  /\ IF CanPost(cloth)
     THEN inbox' = Append(inbox, m) /\ sent' = Append(sent, m)
     ELSE UNCHANGED <<inbox, sent>>
  /\ last' = [op |-> op, ignored |-> ~CanPost(cloth)]
  /\ UNCHANGED <<calc, harness, workerThread, gClothSimulation, sims, task,
                 timerFires, outbox, events, applied, lastRun, cloth,
                 fetchPending>>

\* startOrStopSimulationLoop(start)
StartOrStopSimulationLoop(start) ==
  ClothPost(StartStopSimulationMsg(start), "startOrStopSimulationLoop")

\* updateClothForceAndCollision(msg) called by the owner of the Cloth
UpdateClothForceAndCollisionCall(u) ==
  ClothPost(UpdateMsg(u), "updateClothForceAndCollision")

\* onWorkerMessage, case ClothBuilded: copyParam, then onCreatedEvent
ClothBuilded(c, m) ==
  [c EXCEPT !.nbParticlesWidth = m.nbParticlesWidth,
            !.nbParticlesHeight = m.nbParticlesHeight,
            !.center = m.center,
            !.radius = m.radius,
            !.onCreatedCalls =
               IF c.onCreatedEvent # "undefined" THEN @ + 1 ELSE @]

\* A refreshPrimitive that creates a primitive for every RedrawCloth
refreshPrimitive_always(c) ==
  [c EXCEPT !.primitive = TRUE,
            !.scenePrimitives = @ + 1,
            !.primitivesAdded = @ + 1,
            !.boundingSphere = [center |-> c.center, radius |-> c.radius]]

\* onWorkerMessage, case RedrawCloth: refreshPrimitive creates the primitive
\* and adds it to the scene, or refreshes the buffers of the one it has
refreshPrimitive(c) ==
  IF ~c.primitive
  THEN [c EXCEPT !.primitive = TRUE,
                 !.scenePrimitives = @ + 1,
                 !.primitivesAdded = @ + 1,
                 !.boundingSphere = [center |-> c.center, radius |-> c.radius]]
  ELSE c

\* Views on buffers that postMessage had copied when m was posted
SharedView_copied(m, sim) ==
  [emitted |-> m.frame, positions |-> m.frame, encoded |-> m.frame]

\* onWorkerMessage, case RedrawCloth: new Float64Array(param.particlePositions)
\* and its like are views on the SharedArrayBuffers of the simulation sim.
\* What the Cloth and its primitive read through them is what the worker
\* has written by then: positions of sim.steps simulation steps, high, low
\* and normals of sim.encodedSteps.  The read is taken in the step of the
\* handler, the earliest one; the primitive reads again at each render.
SharedView(m, sim) ==
  [emitted |-> m.frame, positions |-> sim.steps, encoded |-> sim.encodedSteps]

\* onWorkerMessage(event): the next message of the worker is delivered
OnWorkerMessage ==
  /\ harness = "cloth"
  /\ outbox # <<>>
  /\ outbox' = Tail(outbox)
  /\ LET m == Head(outbox)
         reply == /\ m.cmd = "ClothBuilded"
                  /\ cloth.onCreatedEvent = "returnsMsg"
                  /\ CanPost(cloth)
     IN IF ReturnsEarly(cloth)
        THEN UNCHANGED <<cloth, inbox, sent>>
        ELSE /\ cloth' = IF m.cmd = "ClothBuilded" THEN ClothBuilded(cloth, m)
                         ELSE [refreshPrimitive(cloth) EXCEPT
                                 !.frameRead =
                                    SharedView(m, sims[m.particlePositions])]
             /\ inbox' = IF reply THEN Append(inbox, UpdateMsg(OnCreatedMsg))
                         ELSE inbox
             /\ sent' = IF reply THEN Append(sent, UpdateMsg(OnCreatedMsg))
                        ELSE sent
  /\ last' = [op |-> "onWorkerMessage", ignored |-> ReturnsEarly(cloth)]
  /\ UNCHANGED <<calc, harness, workerThread, gClothSimulation, sims, task,
                 timerFires, events, applied, lastRun, fetchPending, apiCalls>>

---------------------------------------------------------------------------
(* The specification *)

\* The worker script has started and no client has posted anything
InitProtocol ==
  /\ harness = "protocol"
  /\ workerThread = "alive"
  /\ inbox = <<>> /\ sent = <<>>
  /\ cloth = NewCloth(FALSE, "undefined")
  /\ fetchPending = FALSE

\* new Cloth(viewer, config, onCreatedEvent): either the constructor has
\* spawned the worker, or the texture is being fetched
InitCloth ==
  /\ harness = "cloth"
  /\ \E onCreated \in {"undefined", "returnsMsg", "returnsUndefined"} :
       \/ /\ fetchPending = TRUE
          /\ workerThread = "none"
          /\ cloth = NewCloth(FALSE, onCreated)
          /\ inbox = <<>> /\ sent = <<>>
       \/ /\ fetchPending = FALSE
          /\ workerThread = "alive"
          /\ cloth = NewCloth(TRUE, onCreated)
          /\ inbox = <<BuildClothMsg(TheConf, 0)>>
          /\ sent = <<BuildClothMsg(TheConf, 0)>>

\* No function is under study
NoCalc == [op |-> "none"]

\* The worker has handled nothing and no timer callback has run
InitWorker ==
  /\ gClothSimulation = 0
  /\ sims = <<>>
  /\ task = IdleTask
  /\ timerFires = 0
  /\ outbox = <<>> /\ events = <<>> /\ applied = <<>>
  /\ lastRun = "none"
  /\ apiCalls = 0
  /\ last = [op |-> "init", ignored |-> FALSE]

Init ==
  /\ InitProtocol \/ InitCloth
  /\ InitWorker
  /\ calc = NoCalc

Next ==
  \/ \E m \in RawCommands : PostRaw(m)
  \/ OnMessageBuildCloth
  \/ OnMessageUpdate
  \/ OnMessageStartStop
  \/ \E s \in 1..Len(sims) : TimerFireRun(s)
  \/ \E s \in 1..Len(sims) : TimerFireSkip(s)
  \/ AddForces
  \/ SimulationStep
  \/ Collisions
  \/ RefreshCloth
  \/ FetchImageDone
  \/ Destroy
  \/ \E b \in BOOLEAN : StartOrStopSimulationLoop(b)
  \/ \E u \in ClothUpdates : UpdateClothForceAndCollisionCall(u)
  \/ OnWorkerMessage

Spec == Init /\ [][Next]_vars

---------------------------------------------------------------------------
(* Properties *)

Simulations == 1..Len(sims)

\* onmessage handles a command of the given kind in this step
Handles(kind) ==
  /\ Len(applied') = Len(applied) + 1
  /\ inbox # <<>> /\ Head(inbox).cmd = kind

\* C1: after a Build command the simulation is paused: no timer callback
\* runs the pipeline of a simulation (and so publishes a frame) before a
\* startStopSimulation(true) has been applied to it.
C1_PausedUntilStarted ==
  \A s \in Simulations : sims[s].ticks > 0 => sims[s].runRequested

\* C2: once a startStopSimulation(false) has been applied and no
\* startStopSimulation(true) after it, no timer callback starts the pipeline
\* of any simulation of the worker.
C2_NoTickWhileStopped ==
  [][lastRun = "stop" =>
       \A s \in Simulations : sims'[s].ticks = sims[s].ticks]_vars

\* C3: while a tick is in progress no command is applied: the number of
\* applied commands and the command state of the ticking simulation are
\* those the tick started with; and commands are applied in the order in
\* which they were sent.
C3_TickNotPreempted ==
  /\ task.stage # "idle" =>
       /\ Len(applied) = task.seen
       /\ CmdState(sims[task.sim]) = task.cmd
  /\ sent = applied \o inbox

\* a command waits in the queue while the tick is about to publish
C3_Witness ==
  /\ task.stage = "refresh"
  /\ inbox # <<>>
  /\ Head(inbox).cmd # "BuildCloth"

\* C4: after destroy() no worker thread of the cloth is alive.
C4_NoWorkerAfterDestroy == cloth._destroyed => workerThread # "alive"

\* C5: a worker message delivered to a destroyed Cloth calls no
\* onCreatedEvent, posts no command and adds no primitive to the scene.
C5_NoEffectAfterDestroy ==
  [][(cloth._destroyed /\ Len(outbox') < Len(outbox)) =>
       (cloth' = cloth /\ sent' = sent /\ inbox' = inbox)]_vars

\* a message queued by a worker that destroy() has terminated was delivered
C5_Witness ==
  /\ last.op = "onWorkerMessage" /\ last.ignored
  /\ cloth._destroyed /\ workerThread = "terminated"

\* C6: a command in an invalid lifecycle state is ignored: an update or a
\* start/stop handled by the worker before any Build changes nothing in the
\* worker, and a command method called on a Cloth that is destroyed or has
\* no worker posts nothing.
C6_InvalidCommandIgnored ==
  [][/\ (gClothSimulation = 0 /\ (Handles("UpdateClothForceAndCollision")
                                  \/ Handles("startStopSimulation"))) =>
          /\ sims' = sims /\ gClothSimulation' = 0 /\ task' = task
          /\ events' = events /\ outbox' = outbox /\ lastRun' = lastRun
     /\ (apiCalls' # apiCalls /\ (cloth._destroyed \/ ~cloth.worker)) =>
          /\ sent' = sent /\ inbox' = inbox /\ cloth' = cloth]_vars

\* a command was ignored by the worker before any Build, or by a Cloth that
\* is destroyed or has no worker
C6_Witness ==
  /\ last.ignored
  /\ \/ /\ last.op \in {"UpdateClothForceAndCollision", "startStopSimulation"}
        /\ sims = <<>>
     \/ /\ last.op \in {"startOrStopSimulationLoop",
                        "updateClothForceAndCollision"}
        /\ (cloth._destroyed \/ ~cloth.worker)

\* C7: a worker builds at most one simulation, so at most one tick loop is
\* stepping and publishing.
C7_SingleSimulation ==
  /\ Len(sims) <= 1
  /\ Cardinality({s \in Simulations : sims[s].canRun}) <= 1

BuildsApplied == SelectSeq(applied, LAMBDA m : m.cmd = "BuildCloth")

BuiltEvents(s) ==
  {i \in 1..Len(events) :
     events[i].cmd = "ClothBuilded" /\ events[i].particlePositions = s}

\* C8: each Build produces exactly one ClothBuilded message, which carries
\* the clothID of the command, the grid width and height, the center and
\* radius and the position buffer of the simulation built, and which
\* precedes every RedrawCloth message of that simulation.
C8_OneBuiltBeforeFrames ==
  /\ Len(sims) = Len(BuildsApplied)
  /\ Cardinality({i \in 1..Len(events) : events[i].cmd = "ClothBuilded"})
       = Len(BuildsApplied)
  /\ \A s \in Simulations :
       /\ Cardinality(BuiltEvents(s)) = 1
       /\ \A i \in BuiltEvents(s) :
            /\ events[i].clothID = BuildsApplied[s].clothID
            /\ events[i].nbParticlesWidth = sims[s].nbParticlesWidth
            /\ events[i].nbParticlesHeight = sims[s].nbParticlesHeight
            /\ events[i].center = sims[s].center
            /\ events[i].radius = sims[s].radius
            /\ \A j \in 1..Len(events) :
                 (events[j].cmd = "RedrawCloth"
                  /\ events[j].particlePositions = s) => i < j

\* a tick of a simulation has published after a simulation of a grid that
\* is wider than high was built
C8_Witness ==
  /\ \E s \in Simulations :
       sims[s].nbParticlesWidth # sims[s].nbParticlesHeight
  /\ \E s \in Simulations : sims[s].ticks > 0
  /\ task.stage = "idle"

\* The particles of the grid of a simulation, as pairs of grid coordinates
Particles(sim) ==
  (0..(sim.nbParticlesWidth - 1)) \X (0..(sim.nbParticlesHeight - 1))

InRange(sim, e) ==
  /\ e.particleX \in 0..(sim.nbParticlesWidth - 1)
  /\ e.particleY \in 0..(sim.nbParticlesHeight - 1)

Entries(upd) ==
  IF Truthy(upd.fixedParticles)
  THEN {upd.fixedParticles[1][i] : i \in 1..Len(upd.fixedParticles[1])}
  ELSE {}

\* The fixed flag and the three coordinates of the particle at idx
ParticleAt(sim, idx) ==
  <<IsFixed(sim, idx), sim.particlePositions[idx],
    sim.particlePositions[idx + 1], sim.particlePositions[idx + 2]>>

\* C9: an update changes only what the message contains: gravity, wind and
\* the sphere list are kept when absent and replaced when present, and the
\* fixed flag and position of every particle that is not listed in
\* fixedParticles are unchanged.
C9_UpdateChangesOnlyListed ==
  [][(gClothSimulation # 0 /\ Handles("UpdateClothForceAndCollision")) =>
       LET old == sims[gClothSimulation]
           new == sims'[gClothSimulation]
           upd == Head(inbox).upd
       IN /\ new.config.gravity =
               IF Truthy(upd.gravity) THEN upd.gravity ELSE old.config.gravity
          /\ new.config.wind =
               IF Truthy(upd.wind) THEN upd.wind ELSE old.config.wind
          /\ new.collisionSpheres =
               IF Truthy(upd.collisionSpheres) THEN upd.collisionSpheres[1]
               ELSE old.collisionSpheres
          /\ \A p \in Particles(old) :
               (\A e \in Entries(upd) :
                  <<e.particleX, e.particleY>> # p) =>
                 ParticleAt(new, getIndex(old.nbParticlesWidth, p[1], p[2]))
                 = ParticleAt(old, getIndex(old.nbParticlesWidth, p[1], p[2]))
     ]_vars

\* C10: an update whose fixed-particle entries are all out of range changes
\* the fixed flag and the position of no particle and writes no element
\* outside the particle buffers.
C10_OutOfRangeEntryIgnored ==
  [][(gClothSimulation # 0 /\ Handles("UpdateClothForceAndCollision")
      /\ Entries(Head(inbox).upd) # {}
      /\ \A e \in Entries(Head(inbox).upd) :
           ~InRange(sims[gClothSimulation], e)) =>
       /\ sims'[gClothSimulation].particlePositions
            = sims[gClothSimulation].particlePositions
       /\ sims'[gClothSimulation].isPositionFixed
            = sims[gClothSimulation].isPositionFixed]_vars

---------------------------------------------------------------------------
(* Cloth.getIndexFromPosition (cloth.ts), applied to points around a Cloth *)
(* that has received ClothBuilded                                          *)

\* Math.ceil(a / b) for b > 0
Ceil(a, b) == 0 - ((0 - a) \div b)

Dot(a, b) == a[1] * b[1] + a[2] * b[2] + a[3] * b[3]

Subtract(a, b) == [i \in 1..3 |-> a[i] - b[i]]

\* Cartesian3.magnitude
Magnitude(a) == ISqrt(Dot(a, a))

\* Cartesian3.normalize
Normalize(v) == [i \in 1..3 |-> v[i] \div Magnitude(v)]

\* projectPoint(p1, p2, p): the projection of p on the line p1-p2
projectPoint(p1, p2, p) ==
  LET AB == Subtract(p2, p1)
      AP == Subtract(p, p1)
  IN [i \in 1..3 |-> p1[i] + (AB[i] * Dot(AP, AB)) \div Dot(AB, AB)]

\* getIndexFromPosition: the grid coordinate recovered on the axis p1-corner
RecoveredCoordinate(c, corner, spacing, p) ==
  LET axis  == Subtract(corner, c.config.p1)
      PAxis == Subtract(p, c.config.p1)
  IN Ceil(Magnitude(projectPoint(ZERO, axis, PAxis)), spacing) - 1

\* getIndexFromPosition(p) of the Cloth c
getIndexFromPosition(c, p) ==
  LET X == RecoveredCoordinate(c, c.config.p2,
                               c.config.widthAxisParticleDistance, p)
      Y == RecoveredCoordinate(c, c.config.p4,
                               c.config.heightAxisParticleDistance, p)
  IN IF X > c.nbParticlesWidth THEN 0 - 1
     ELSE IF Y > c.nbParticlesHeight THEN 0 - 1
     ELSE getIndex(c.nbParticlesWidth, X, Y)

\* A Cloth of configuration conf after onWorkerMessage has handled the
\* ClothBuilded message of its simulation
BuiltCloth(conf) ==
  ClothBuilded([NewCloth(TRUE, "undefined") EXCEPT !.config = conf],
               sendOncreatedMsg(ClothSimulation(conf, 0), 1))

\* Points of the plane of the cloth, on it and around it
QueryPoints ==
  {<<x, y, 0>> : x \in (0 - 1)..(Spacing * (MaxCells + 2)),
                 y \in (0 - 1)..(HeightAxisLength + 2 * Spacing)}

InitGetIndexFromPosition ==
  /\ InitProtocol /\ InitWorker
  /\ \E conf \in Configs, p \in QueryPoints :
       calc = [cloth |-> BuiltCloth(conf), op |-> "getIndexFromPosition",
               p |-> p, done |-> FALSE, result |-> 0]

\* The owner of the Cloth calls getIndexFromPosition(p)
GetIndexFromPositionCall ==
  /\ calc.op = "getIndexFromPosition" /\ ~calc.done
  /\ calc' = [calc EXCEPT !.done = TRUE,
                          !.result = getIndexFromPosition(calc.cloth, calc.p)]
  /\ UNCHANGED machineVars

SpecGetIndexFromPosition ==
  InitGetIndexFromPosition /\ [][GetIndexFromPositionCall]_vars

\* C11: getIndexFromPosition returns -1 for every point whose recovered grid
\* coordinate lies outside the cloth, and otherwise the index getIndex(X, Y)
\* of an existing particle: 0 <= X <= width - 1 and 0 <= Y <= height - 1.
C11_OutsideReturnsMinusOne ==
  (calc.op = "getIndexFromPosition" /\ calc.done) =>
    LET c == calc.cloth
        X == RecoveredCoordinate(c, c.config.p2,
                                 c.config.widthAxisParticleDistance, calc.p)
        Y == RecoveredCoordinate(c, c.config.p4,
                                 c.config.heightAxisParticleDistance, calc.p)
        inside == /\ X \in 0..(c.nbParticlesWidth - 1)
                  /\ Y \in 0..(c.nbParticlesHeight - 1)
    IN calc.result = IF inside THEN getIndex(c.nbParticlesWidth, X, Y)
                     ELSE 0 - 1

---------------------------------------------------------------------------
(* new ClothSimulation(config, clothID): the constructor and build(),      *)
(* applied to configurations of every axis length, particle distance and   *)
(* connectingSecondaryNeighbors                                            *)

\* Largest length of an axis of the configurations built
MaxAxisLength == 4

\* constructor: the field connectingSecondaryNeighbors, true unless the
\* configuration's value is truthy and replaces it
connectingSecondaryNeighbors(conf) ==
  LET default == TRUE
  IN IF conf.connectingSecondaryNeighbors = "true"
     THEN conf.connectingSecondaryNeighbors = "true"
     ELSE default

\* The position written at idx in the position buffer
Position(sim, idx) ==
  <<sim.particlePositions[idx], sim.particlePositions[idx + 1],
    sim.particlePositions[idx + 2]>>

\* addConstraint(idx1, idx2): the element pushed on particleConstraints
addConstraint(sim, idx1, idx2) ==
  [idx1 |-> idx1, idx2 |-> idx2,
   distance |-> Distance(Position(sim, idx1), Position(sim, idx2))]

\* build(): the constraints the body of a constraint loop adds at (x, y)
\* with the neighbours at distance d, keeping only the first diagonal
NeighborConstraints_oneDiagonal(sim, d, x, y) ==
  LET w == sim.nbParticlesWidth
      h == sim.nbParticlesHeight
  IN (IF x < w - d
      THEN <<addConstraint(sim, getIndex(w, x, y), getIndex(w, x + d, y))>>
      ELSE <<>>)
     \o (IF y < h - d
         THEN <<addConstraint(sim, getIndex(w, x, y), getIndex(w, x, y + d))>>
         ELSE <<>>)
     \o (IF x < w - d /\ y < h - d
         THEN <<addConstraint(sim, getIndex(w, x, y),
                              getIndex(w, x + d, y + d))>>
         ELSE <<>>)

\* build(): the constraints the body of a constraint loop adds at (x, y)
\* with the neighbours at distance d (1, then 2)
NeighborConstraints(sim, d, x, y) ==
  LET w == sim.nbParticlesWidth
      h == sim.nbParticlesHeight
  IN (IF x < w - d
      THEN <<addConstraint(sim, getIndex(w, x, y), getIndex(w, x + d, y))>>
      ELSE <<>>)
     \o (IF y < h - d
         THEN <<addConstraint(sim, getIndex(w, x, y), getIndex(w, x, y + d))>>
         ELSE <<>>)
     \o (IF x < w - d /\ y < h - d
         THEN <<addConstraint(sim, getIndex(w, x, y),
                              getIndex(w, x + d, y + d))>>
         ELSE <<>>)
     \o (IF x < w - d /\ y < h - d
         THEN <<addConstraint(sim, getIndex(w, x + d, y),
                              getIndex(w, x, y + d))>>
         ELSE <<>>)

RECURSIVE ConstraintLoop(_, _, _)
\* build(): a constraint loop, for y, for x, from particle number n on
ConstraintLoop(sim, d, n) ==
  IF n >= sim.nbParticlesWidth * sim.nbParticlesHeight THEN <<>>
  ELSE NeighborConstraints(sim, d, n % sim.nbParticlesWidth,
                           n \div sim.nbParticlesWidth)
       \o ConstraintLoop(sim, d, n + 1)

\* build(): particleConstraints
particleConstraints(sim, secondary) ==
  ConstraintLoop(sim, 1, 0)
  \o (IF secondary THEN ConstraintLoop(sim, 2, 0) ELSE <<>>)

\* new Float32Array(buffer) and its like: the length of a view of elements
\* of the given size on a buffer of the given number of bytes
ViewLength_doubles(bytes, size) == bytes \div 8

ViewLength(bytes, size) == bytes \div size

\* initBuffers(): the length of every buffer
initBuffers(nw, nh) ==
  LET vertexBufferCount == nw * 3 * nh
      triangleIndicesCount == (nw - 1) * (nh - 1) * 2 * 3
  IN [vertexBufferCount |-> vertexBufferCount,
      particlePositions |-> ViewLength(8 * vertexBufferCount, 8),
      isPositionFixed |-> nw * nh,
      triangleIndicesCount |-> triangleIndicesCount,
      particlePositionsHigh |-> ViewLength(4 * vertexBufferCount, 4),
      particlePositionsLow |-> ViewLength(4 * vertexBufferCount, 4),
      lastParticlePositions |-> vertexBufferCount,
      particleNormals |-> ViewLength(4 * vertexBufferCount, 4),
      particleTextureCoordinates |-> ViewLength(4 * (nw * nh) * 2, 4),
      particleAccelerations |-> vertexBufferCount,
      triangleIndices |-> ViewLength(2 * triangleIndicesCount, 2)]

\* computeNormals(): the triangles in the order of its loops, y then x
NormalTriangles(sim) ==
  LET w == sim.nbParticlesWidth
      h == sim.nbParticlesHeight
  IN [k \in 1..(2 * (w - 1) * (h - 1)) |->
        LET x == ((k - 1) \div 2) % (w - 1)
            y == ((k - 1) \div 2) \div (w - 1)
        IN IF k % 2 = 1
           THEN <<getIndex(w, x, y), getIndex(w, x + 1, y),
                  getIndex(w, x, y + 1)>>
           ELSE <<getIndex(w, x + 1, y), getIndex(w, x + 1, y + 1),
                  getIndex(w, x, y + 1)>>]

\* calcTriangleNormal(idx1, idx2, idx3) before it normalizes: the cross
\* product of two sides of the triangle t
TriangleCross(sim, t) ==
  LET v1 == Subtract(Position(sim, t[2]), Position(sim, t[1]))
      v2 == Subtract(Position(sim, t[3]), Position(sim, t[1]))
  IN <<v1[2] * v2[3] - v1[3] * v2[2],
       v1[3] * v2[1] - v1[1] * v2[3],
       v1[1] * v2[2] - v1[2] * v2[1]>>

RECURSIVE AccumulatedNormal(_, _, _)
\* resetNormals(), then the addToNormal(idx, normal) of computeNormals():
\* the sum of the normals of the triangles of tris that have the particle
\* idx as a corner, (0, 0, 0) if there is none
AccumulatedNormal(sim, tris, idx) ==
  IF tris = <<>> THEN ZERO
  ELSE LET rest == AccumulatedNormal(sim, Tail(tris), idx)
           n == Normalize(TriangleCross(sim, tris[1]))
       IN IF idx \in {tris[1][1], tris[1][2], tris[1][3]}
          THEN <<n[1] + rest[1], n[2] + rest[2], n[3] + rest[3]>>
          ELSE rest

\* resetNormals() and computeNormals(): the normal of every particle, None
\* where its coordinates are NaN.  calcTriangleNormal divides a cross
\* product that is (0, 0, 0) by its norm 0 and adds the NaN to the three
\* corners; normalizeNormals divides every accumulated normal by its norm,
\* 0 / 0 where nothing but zeros was added.
computeNormals(sim) ==
  LET tris == NormalTriangles(sim)
      corner(idx) == {k \in DOMAIN tris :
                        idx \in {tris[k][1], tris[k][2], tris[k][3]}}
      flat(idx) == {k \in corner(idx) : TriangleCross(sim, tris[k]) = ZERO}
  IN [idx \in {i \in DOMAIN sim.particlePositions : i % 3 = 0} |->
        IF flat(idx) # {} THEN None
        ELSE IF AccumulatedNormal(sim, tris, idx) = ZERO THEN None
        ELSE Normalize(AccumulatedNormal(sim, tris, idx))]

\* The object the constructor leaves and the messages it posts.  sim holds
\* the fields the commands and the ticks use; intersectFailures is history:
\* the number of vertices build() logged 'intersect failed' for.
\* particleNormals is the normal buffer after the refreshCloth() of the
\* constructor.
Construct(conf, id) ==
  LET sim == ClothSimulation(conf, id)
      nw  == sim.nbParticlesWidth
      nh  == sim.nbParticlesHeight
      secondary == connectingSecondaryNeighbors(conf)
  IN [connectingSecondaryNeighbors |-> secondary,
      sim |-> sim,
      particleConstraints |-> particleConstraints(sim, secondary),
      particleNormals |-> computeNormals(sim),
      buffers |-> initBuffers(nw, nh),
      intersectFailures |->
        Cardinality({n \in 0..(nw * nh - 1) :
                       BuildPosition(conf, nw, nh, n % nw, n \div nw) = None}),
      posted |-> <<sendOncreatedMsg(sim, 1), RedrawClothMsg(sim, 1)>>]

\* The configurations built: lengths lw and lh, distances sw and sh
BuildConf(lw, lh, sw, sh, flag) ==
  [ClothConf(lw, lh) EXCEPT !.widthAxisParticleDistance = sw,
                            !.heightAxisParticleDistance = sh,
                            !.connectingSecondaryNeighbors = flag]

InitBuild ==
  /\ InitProtocol /\ InitWorker
  /\ \E lw \in 1..MaxAxisLength, lh \in 1..MaxAxisLength,
        sw \in 1..Spacing, sh \in 1..Spacing,
        flag \in {"undefined", "true", "false"} :
       calc = [lw |-> lw, lh |-> lh,
               config |-> BuildConf(lw, lh, sw, sh, flag), op |-> "build",
               done |-> FALSE, built |-> <<>>]

\* The worker constructs the simulation of the configuration
ConstructSimulation ==
  /\ calc.op = "build" /\ ~calc.done
  /\ calc' = [calc EXCEPT !.done = TRUE, !.built = Construct(calc.config, 0)]
  /\ UNCHANGED machineVars

SpecBuild == InitBuild /\ [][ConstructSimulation]_vars

\* The grid coordinates of the particle of buffer index idx
GridX(sim, idx) == (idx \div 3) % sim.nbParticlesWidth

GridY(sim, idx) == (idx \div 3) \div sim.nbParticlesWidth

Abs(n) == IF n < 0 THEN 0 - n ELSE n

\* The distance in the grid between the two particles of a constraint
Stride(sim, c) ==
  LET dx == Abs(GridX(sim, c.idx1) - GridX(sim, c.idx2))
      dy == Abs(GridY(sim, c.idx1) - GridY(sim, c.idx2))
  IN IF dx > dy THEN dx ELSE dy

\* The number of constraints of a simulation at the given grid distance
CountAtStride(b, d) ==
  Cardinality({i \in 1..Len(b.particleConstraints) :
                 Stride(b.sim, b.particleConstraints[i]) = d})

\* (w - d) * h + (h - d) * w + 2 * (w - d) * (h - d), a negative factor
\* counting as 0
ExpectedCount(w, h, d) ==
  LET a == IF w - d > 0 THEN w - d ELSE 0
      b == IF h - d > 0 THEN h - d ELSE 0
  IN a * h + b * w + 2 * a * b

Built == calc.op = "build" /\ calc.done

\* C12: secondary (distance-2) constraints are created only if the flag is
\* on: a build with connectingSecondaryNeighbors = false yields exactly the
\* structural constraints and none at distance 2, and an absent flag takes
\* the default, on.
C12_SecondaryOnlyIfFlagOn ==
  Built =>
    LET b == calc.built
        w == b.sim.nbParticlesWidth
        h == b.sim.nbParticlesHeight
    IN /\ calc.config.connectingSecondaryNeighbors = "false" =>
            /\ CountAtStride(b, 2) = 0
            /\ Len(b.particleConstraints) = ExpectedCount(w, h, 1)
       /\ calc.config.connectingSecondaryNeighbors = "undefined" =>
            CountAtStride(b, 2) = ExpectedCount(w, h, 2)

\* C13: if the intersection fails for any grid vertex during build, the
\* build is reported as failed: no ClothBuilded message is posted and no
\* partially initialised grid is published.
C13_FailedBuildNotPublished ==
  (Built /\ calc.built.intersectFailures > 0) => calc.built.posted = <<>>

\* C14: after build, width = floor(L_w / s_w) + 1 and height =
\* floor(L_h / s_h) + 1, each at least 1, and the position,
\* previous-position, acceleration, normal and encoded high and low buffers
\* all have length 3 * width * height.
C14_GridDimensionsAndBuffers ==
  Built =>
    LET b == calc.built
        w == b.sim.nbParticlesWidth
        h == b.sim.nbParticlesHeight
    IN /\ w = (calc.lw \div calc.config.widthAxisParticleDistance) + 1
       /\ h = (calc.lh \div calc.config.heightAxisParticleDistance) + 1
       /\ w >= 1 /\ h >= 1
       /\ \A name \in {"particlePositions", "lastParticlePositions",
                       "particleAccelerations", "particleNormals",
                       "particlePositionsHigh", "particlePositionsLow"} :
            b.buffers[name] = 3 * w * h
       /\ DOMAIN b.sim.particlePositions = 0..(3 * w * h - 1)

\* A grid of one row whose width axis is not a multiple of the distance
C14_Witness ==
  /\ Built
  /\ calc.lw % calc.config.widthAxisParticleDistance # 0
  /\ calc.built.sim.nbParticlesWidth >= 2
  /\ calc.built.sim.nbParticlesHeight = 1

\* C15: a built w x h grid has (w-1)*h + (h-1)*w + 2*(w-1)*(h-1) structural
\* constraints and, with secondary neighbours enabled, max(w-2,0)*h +
\* max(h-2,0)*w + 2*max(w-2,0)*max(h-2,0) more; every constraint links two
\* distinct existing particles and its rest distance is the distance of
\* the two at build time.
C15_ConstraintCounts ==
  Built =>
    LET b == calc.built
        w == b.sim.nbParticlesWidth
        h == b.sim.nbParticlesHeight
        particles == {3 * n : n \in 0..(w * h - 1)}
        secondary == IF b.connectingSecondaryNeighbors
                     THEN ExpectedCount(w, h, 2) ELSE 0
    IN /\ CountAtStride(b, 1) = ExpectedCount(w, h, 1)
       /\ CountAtStride(b, 2) = secondary
       /\ Len(b.particleConstraints) = ExpectedCount(w, h, 1) + secondary
       /\ \A i \in 1..Len(b.particleConstraints) :
            LET c == b.particleConstraints[i]
            IN /\ c.idx1 \in particles /\ c.idx2 \in particles
               /\ c.idx1 # c.idx2
               /\ c.distance = Distance(Position(b.sim, c.idx1),
                                        Position(b.sim, c.idx2))

\* A grid with inner particles, so that every kind of constraint exists
C15_Witness ==
  /\ Built
  /\ calc.built.sim.nbParticlesWidth >= 3
  /\ calc.built.sim.nbParticlesHeight >= 3
  /\ calc.built.connectingSecondaryNeighbors
  /\ calc.built.intersectFailures = 0
  /\ CountAtStride(calc.built, 2) > 0

---------------------------------------------------------------------------
(* encodePositions(), applied to coordinate values.  A value is a number   *)
(* of units of 2^-FracBits; a double holds every value used here exactly.  *)

\* Number of binary digits after the point in the values encoded
FracBits == 10

\* Largest multiple of 65536 below the values encoded
MaxHigh == 3

Unit == 2 ^ FracBits

\* 65536.0
HighStep == 65536 * Unit

RECURSIVE BitLengthFrom(_, _)
BitLengthFrom(a, b) == IF a < 2 ^ b THEN b ELSE BitLengthFrom(a, b + 1)

\* The number of binary digits of a >= 0
BitLength(a) == BitLengthFrom(a, 0)

\* A store in a Float32Array: the value is rounded to 24 significant binary
\* digits, a tie going to the even neighbour
Fround(n) ==
  LET a == Abs(n)
      e == BitLength(a) - 24
      q == a \div (2 ^ e)
      r == a % (2 ^ e)
      up == r * 2 > 2 ^ e \/ (r * 2 = 2 ^ e /\ q % 2 = 1)
      m == (IF up THEN q + 1 ELSE q) * (2 ^ e)
  IN IF a < 2 ^ 24 THEN n ELSE IF n < 0 THEN 0 - m ELSE m

\* encodePositions with Math.floor applied to the value whatever its sign
doubleHigh_floorOfValue(value) == (value \div HighStep) * HighStep

\* encodePositions: the high part of a value before it is stored
doubleHigh(value) ==
  IF value >= 0 THEN (value \div HighStep) * HighStep
  ELSE 0 - (((0 - value) \div HighStep) * HighStep)

\* encodePositions: the elements stored in particlePositionsHigh and
\* particlePositionsLow for a value of particlePositions
encodePositions(value) ==
  [high |-> Fround(doubleHigh(value)),
   low  |-> Fround(value - doubleHigh(value))]

\* The remainders of the values encoded: none, the smallest, around 1,
\* around 65535 and the largest
EncodeRemainders ==
  {0, 1, Unit, Unit + 1, 3 * Unit + Unit \div 256, HighStep \div 2 + 1,
   HighStep - Unit, HighStep - Unit + 1, HighStep - 1}

EncodeValues ==
  {s * (k * HighStep + r) : s \in {0 - 1, 1}, k \in 0..MaxHigh,
                            r \in EncodeRemainders}

InitEncodePositions ==
  /\ InitProtocol /\ InitWorker
  /\ \E v \in EncodeValues :
       calc = [op |-> "encodePositions", done |-> FALSE, value |-> v,
               high |-> 0, low |-> 0]

\* refreshCloth() encodes the element of particlePositions
EncodePositionsCall ==
  /\ calc.op = "encodePositions" /\ ~calc.done
  /\ calc' = [calc EXCEPT !.done = TRUE,
                          !.high = encodePositions(calc.value).high,
                          !.low = encodePositions(calc.value).low]
  /\ UNCHANGED machineVars

SpecEncodePositions == InitEncodePositions /\ [][EncodePositionsCall]_vars

Encoded == calc.op = "encodePositions" /\ calc.done

\* The part of C16 that holds as stated: high is an integer multiple of
\* 65536, >= 0 for v >= 0 and <= 0 for v < 0
HighPartOk ==
  /\ calc.high % HighStep = 0
  /\ calc.value >= 0 => calc.high >= 0
  /\ calc.value < 0 => calc.high <= 0

\* C16 as stated: for every coordinate value v, encodePositions produces
\* (high, low) with high + low == v, high an integer multiple of 65536 that
\* is >= 0 for v >= 0 and <= 0 for v < 0, and 0 <= low < 65536 for v >= 0,
\* -65536 < low <= 0 for v < 0.
C16_EncodeExact ==
  Encoded =>
    /\ calc.high + calc.low = calc.value
    /\ HighPartOk
    /\ calc.value >= 0 => (0 <= calc.low /\ calc.low < HighStep)
    /\ calc.value < 0 => (0 - HighStep < calc.low /\ calc.low <= 0)

\* C16, amended: low is stored in single precision, so high + low equals v
\* up to the rounding of low, |high + low - v| <= 2^-9, and exactly when v is
\* a multiple of 2^-8; high is as stated; low lies in [0, 65536] for v >= 0
\* and in [-65536, 0] for v < 0, and reaches the bound 65536 by rounding.
C16_EncodeWithinSinglePrecision ==
  Encoded =>
    /\ 512 * Abs(calc.high + calc.low - calc.value) <= Unit
    /\ calc.value % (Unit \div 256) = 0 =>
         /\ calc.high + calc.low = calc.value
         /\ Abs(calc.low) < HighStep
    /\ HighPartOk
    /\ calc.value >= 0 => (0 <= calc.low /\ calc.low <= HighStep)
    /\ calc.value < 0 => (0 - HighStep <= calc.low /\ calc.low <= 0)

\* A negative value above 65536 in magnitude whose low part is rounded
C16_Witness ==
  /\ Encoded
  /\ calc.value < 0 /\ calc.high < 0
  /\ calc.high + calc.low # calc.value

---------------------------------------------------------------------------
(* Frames: the shared buffers between the worker and the Cloth *)

\* onWorkerMessage handles a RedrawCloth message in this step
HandlesRedraw ==
  /\ harness = "cloth" /\ outbox # <<>> /\ outbox' = Tail(outbox)
  /\ Head(outbox).cmd = "RedrawCloth"
  /\ ~cloth._destroyed

\* C17: frames are published by writing the shared buffers in place and then
\* notifying, with no lock and no double buffering: what the consumer reads
\* when it handles a RedrawCloth message is what the worker's buffers hold
\* at that moment, not what they held when the message was posted.  The
\* interleaving of the claim, a read of a later tick's positions mixed with
\* the encoded positions of the frame, is C17_Witness.
C17_ConsumerReadsLiveBuffers ==
  [][HandlesRedraw =>
       LET m == Head(outbox)
           sim == sims[m.particlePositions]
       IN /\ cloth'.frameRead.emitted = m.frame
          /\ cloth'.frameRead.positions = sim.steps
          /\ cloth'.frameRead.encoded = sim.encodedSteps]_vars

\* The Cloth has handled the RedrawCloth of a frame while the worker was in
\* the next tick: the positions it read are those of a later simulation step
\* than the frame's, the high and low parts still those of the frame
C17_Witness ==
  /\ cloth.frameRead # NoRead
  /\ cloth.frameRead.positions > cloth.frameRead.emitted
  /\ cloth.frameRead.encoded = cloth.frameRead.emitted

---------------------------------------------------------------------------
(* The interval callback with the particle buffers: updateSimulation() and *)
(* refreshCloth() of a simulation whose cloth is at rest.  Accelerations   *)
(* and forces are integers in units of timeStepPerFrame (0.5 * 0.5), so    *)
(* that acceleration * timeStepPerFrame is an integer in the unit of the   *)
(* positions.  A tick is taken from a state where every particle is at its *)
(* previous position: there the cloth is the flat grid build() made, each  *)
(* triangle normal is (0, 0, 1) or (0, 0, -1), each constraint is at its   *)
(* rest distance, and every quantity of the tick is exact.                 *)

\* Largest number of ticks of a simulation
MaxTicks == 3

\* Largest number of commands applied to a simulation between its ticks
MaxTickCmds == 1

\* Transforms.northEastDownToFixedFrame(p1) applied to the point v, for the
\* p1 = ZERO of the configurations: north is -x, east is y, down is -z
northEastDownToFixedFrame(p1, v) ==
  <<p1[1] - v[1], p1[2] + v[2], p1[3] - v[3]>>

\* addGravity() and addForceToAllParticles(g): g is the unit vector of the
\* transformed gravity times -timeStepPerFrame, one unit of force
addGravity(sim, acc) ==
  IF sim.config.gravity = ZERO THEN acc
  ELSE LET g == Normalize(northEastDownToFixedFrame(sim.config.p1,
                                                    sim.config.gravity))
       IN [i \in DOMAIN acc |->
             IF IsFixed(sim, 3 * (i \div 3)) THEN acc[i]
             ELSE acc[i] - g[(i % 3) + 1]]

\* calcTriangleNormal(idx1, idx2, idx3)
calcTriangleNormal(sim, idx1, idx2, idx3) ==
  LET v1 == Subtract(Position(sim, idx2), Position(sim, idx1))
      v2 == Subtract(Position(sim, idx3), Position(sim, idx1))
      c  == <<v1[2] * v2[3] - v1[3] * v2[2],
              v1[3] * v2[1] - v1[1] * v2[3],
              v1[1] * v2[2] - v1[2] * v2[1]>>
  IN Normalize(c)

\* addWindForcesForTriangle(idx1, idx2, idx3, direction), t the three
\* indices: addForce on each of the three particles (particleMass is 1)
addWindForcesForTriangle(sim, acc, t, direction) ==
  LET normal == calcTriangleNormal(sim, t[1], t[2], t[3])
      d == Dot(normal, direction)
  IN [i \in DOMAIN acc |->
        IF 3 * (i \div 3) \in {t[1], t[2], t[3]}
        THEN acc[i] + normal[(i % 3) + 1] * d
        ELSE acc[i]]

\* windForce(): the triangles in the order of its loops, x then y
WindTriangles(sim) ==
  LET w == sim.nbParticlesWidth
      h == sim.nbParticlesHeight
  IN [k \in 1..(2 * (w - 1) * (h - 1)) |->
        LET x == ((k - 1) \div 2) \div (h - 1)
            y == ((k - 1) \div 2) % (h - 1)
        IN IF k % 2 = 1
           THEN <<getIndex(w, x, y), getIndex(w, x + 1, y),
                  getIndex(w, x, y + 1)>>
           ELSE <<getIndex(w, x + 1, y), getIndex(w, x, y + 1),
                  getIndex(w, x + 1, y + 1)>>]

RECURSIVE WindLoop(_, _, _, _)
WindLoop(sim, acc, tris, wind) ==
  IF tris = <<>> THEN acc
  ELSE WindLoop(sim, addWindForcesForTriangle(sim, acc, tris[1], wind),
                Tail(tris), wind)

\* windForce(): the accelerations and the noise counter after it, whether
\* it went past its first return and whether it used the noisy wind.  The
\* noise, 0.001 on x and y, meets normals whose x and y are 0: it adds
\* nothing to the forces of this state.
windForce(sim, acc) ==
  IF sim.config.wind = ZERO
  THEN [step |-> sim.windNoiseStep, noisy |-> FALSE, acc |-> acc,
        ran |-> FALSE]
  ELSE [step |-> addWindNoise(sim.windNoiseStep).step,
        noisy |-> addWindNoise(sim.windNoiseStep).noisy,
        acc |-> WindLoop(sim, acc, WindTriangles(sim), sim.config.wind),
        ran |-> TRUE]

\* particleTimeStep: (x - ox) * (1.0 - damping), damping = 0.01
Damped(v) == (v * 99) \div 100

\* A solver that moves both endpoints of a constraint, fixed or not
satisfyConstraint_movesFixed(sim, b, c) ==
  LET at(idx) == <<b.particlePositions[idx], b.particlePositions[idx + 1],
                   b.particlePositions[idx + 2]>>
      d == Subtract(at(c.idx2), at(c.idx1))
      dist == Magnitude(d)
      cv == [k \in 1..3 |-> (d[k] * (dist - c.distance)) \div (2 * dist)]
  IN IF dist = 0 \/ c.idx1 \in b.nan \/ c.idx2 \in b.nan
     THEN [b EXCEPT !.nan = @ \cup {c.idx1, c.idx2}]
     ELSE [b EXCEPT !.particlePositions =
                       [@ EXCEPT ![c.idx1] = @ + cv[1],
                                 ![c.idx1 + 1] = @ + cv[2],
                                 ![c.idx1 + 2] = @ + cv[3],
                                 ![c.idx2] = @ - cv[1],
                                 ![c.idx2 + 1] = @ - cv[2],
                                 ![c.idx2 + 2] = @ - cv[3]]]

\* A solver that moves each endpoint by the whole difference to the rest
\* distance instead of its half
satisfyConstraint_wholeDifference(sim, b, c) ==
  LET at(idx) == <<b.particlePositions[idx], b.particlePositions[idx + 1],
                   b.particlePositions[idx + 2]>>
      d == Subtract(at(c.idx2), at(c.idx1))
      dist == Magnitude(d)
      cv == [k \in 1..3 |-> (d[k] * (dist - c.distance)) \div dist]
      free == {idx \in {c.idx1, c.idx2} : ~IsFixed(sim, idx)}
      moved1 == IF c.idx1 \notin free THEN b.particlePositions
                ELSE [b.particlePositions EXCEPT
                        ![c.idx1] = @ + cv[1],
                        ![c.idx1 + 1] = @ + cv[2],
                        ![c.idx1 + 2] = @ + cv[3]]
      moved2 == IF c.idx2 \notin free THEN moved1
                ELSE [moved1 EXCEPT
                        ![c.idx2] = @ - cv[1],
                        ![c.idx2 + 1] = @ - cv[2],
                        ![c.idx2 + 2] = @ - cv[3]]
  IN IF dist = 0 \/ c.idx1 \in b.nan \/ c.idx2 \in b.nan
     THEN [b EXCEPT !.nan = @ \cup free]
     ELSE [b EXCEPT !.particlePositions = moved2]

\* satisfyConstraint(constraint) on the position buffer b.  b.nan is the set
\* of the particles whose coordinates are NaN.  With dist = 0 the quotient
\* distance / dist is Infinity or NaN and dx * deltaDist is NaN: the three
\* coordinates of every endpoint that is not fixed become NaN, as they do
\* when an endpoint is NaN already.
satisfyConstraint(sim, b, c) ==
  LET at(idx) == <<b.particlePositions[idx], b.particlePositions[idx + 1],
                   b.particlePositions[idx + 2]>>
      d == Subtract(at(c.idx2), at(c.idx1))
      dist == Magnitude(d)
      cv == [k \in 1..3 |-> (d[k] * (dist - c.distance)) \div (2 * dist)]
      free == {idx \in {c.idx1, c.idx2} : ~IsFixed(sim, idx)}
      moved1 == IF c.idx1 \notin free THEN b.particlePositions
                ELSE [b.particlePositions EXCEPT
                        ![c.idx1] = @ + cv[1],
                        ![c.idx1 + 1] = @ + cv[2],
                        ![c.idx1 + 2] = @ + cv[3]]
      moved2 == IF c.idx2 \notin free THEN moved1
                ELSE [moved1 EXCEPT
                        ![c.idx2] = @ - cv[1],
                        ![c.idx2 + 1] = @ - cv[2],
                        ![c.idx2 + 2] = @ - cv[3]]
  IN IF dist = 0 \/ c.idx1 \in b.nan \/ c.idx2 \in b.nan
     THEN [b EXCEPT !.nan = @ \cup free]
     ELSE [b EXCEPT !.particlePositions = moved2]

RECURSIVE ConstraintPass(_, _, _)
\* particleConstraints.forEach(c => satisfyConstraint(c)): the constraints
\* cs that remain, one after the other on the buffers the one before left
ConstraintPass(sim, b, cs) ==
  IF cs = <<>> THEN b
  ELSE LET next == satisfyConstraint(sim, b, cs[1])
       IN IF next = b THEN ConstraintPass(sim, b, Tail(cs))
          ELSE ConstraintPass(sim, next, Tail(cs))

\* The field nbSimulationIterations
nbSimulationIterations == 15

RECURSIVE ConstraintPasses(_, _, _)
\* simulationStep(): the n remaining iterations of the constraints.  After
\* an iteration that changes nothing the remaining ones change nothing.
ConstraintPasses(sim, b, n) ==
  LET pass == ConstraintPass(sim, b, b.particleConstraints)
  IN IF n = 0 \/ pass = b THEN b
     ELSE ConstraintPasses(sim, pass, n - 1)

\* An integration step without damping
particleTimeStep_undamped(fixed, x, ox, a) ==
  IF fixed THEN [position |-> x, previous |-> ox, acceleration |-> a]
  ELSE [position |-> x + (x - ox) + a, previous |-> x, acceleration |-> 0]

\* particleTimeStep(idx) on one coordinate of the particle: its position x,
\* its previous position ox and its acceleration a, whose product with
\* timeStepPerFrame is a in the unit of the positions
particleTimeStep(fixed, x, ox, a) ==
  IF fixed THEN [position |-> x, previous |-> ox, acceleration |-> a]
  ELSE [position |-> x + Damped(x - ox) + a, previous |-> x,
        acceleration |-> 0]

\* simulationStep() on the buffers b: the iterations of the constraints,
\* then particleTimeStep(idx) for every particle
simulationStep(sim, b) ==
  LET s == ConstraintPasses(sim, b, nbSimulationIterations)
      step(i) == particleTimeStep(IsFixed(sim, 3 * (i \div 3)),
                                  s.particlePositions[i],
                                  s.lastParticlePositions[i],
                                  s.particleAccelerations[i])
  IN [s EXCEPT
        !.particlePositions = [i \in DOMAIN @ |-> step(i).position],
        !.lastParticlePositions = [i \in DOMAIN @ |-> step(i).previous],
        !.particleAccelerations = [i \in DOMAIN @ |-> step(i).acceleration]]

\* computeSphereCollision(s), after the sphere has moved, on the buffers b:
\* every particle that is not fixed and is inside the sphere is put on its
\* surface.  A particle at the center has l = 0: vx / l is NaN and so are
\* its coordinates afterwards.  A particle whose coordinates are NaN has
\* l = NaN, l < radius is false and it is left alone.
PushOut(sim, b, sp) ==
  LET positions == b.particlePositions
      at(idx) == <<positions[idx], positions[idx + 1], positions[idx + 2]>>
      l(idx) == Distance(sp.sphereCenter, at(idx))
      inside == {idx \in {i \in DOMAIN positions : i % 3 = 0} :
                   /\ ~IsFixed(sim, idx) /\ idx \notin b.nan
                   /\ l(idx) < sp.sphereRadius}
      pushed == [i \in DOMAIN positions |->
                   LET idx == 3 * (i \div 3)
                   IN IF idx \in inside /\ l(idx) # 0
                      THEN positions[i]
                           + ((positions[i] - sp.sphereCenter[(i % 3) + 1])
                              * (sp.sphereRadius - l(idx))) \div l(idx)
                      ELSE positions[i]]
  IN [b EXCEPT !.particlePositions = pushed,
               !.nan = @ \cup {idx \in inside : l(idx) = 0}]

RECURSIVE CollisionLoop(_, _, _)
\* collisionSpheres.forEach(s => computeSphereCollision(s)), spheres being
\* the spheres after their move
CollisionLoop(sim, b, spheres) ==
  IF spheres = <<>> THEN b
  ELSE CollisionLoop(sim, PushOut(sim, b, spheres[1]), Tail(spheres))

\* A sphere that advances by 3/4 of the way at each tick, above the cloth
SphereFast ==
  [sphereCenter |-> <<0, 0, 8>>, sphereRadius |-> 2,
   sphereDestination |-> <<0, 0, 72>>, speed |-> 3, dt |-> 0, id |-> 0 - 1]

\* A sphere at rest under the particle (0, 0): the particle enters it when
\* gravity alone moves it, and no other particle does
SphereLow ==
  [sphereCenter |-> <<0, 0, 0 - 2>>, sphereRadius |-> 2,
   sphereDestination |-> <<0, 0, 0 - 2>>, speed |-> 2, dt |-> 0,
   id |-> 0 - 1]

\* The commands applied between two ticks: they unfix the particle (0, 0),
\* stop the wind, and fix the particle (1, 0) one particle distance above
\* its place in the grid
TickUpdates ==
  { ClothForceAndCollisionMsg(None, None, None,
                              Some(<<ParticleState(0, 0, FALSE, None)>>)),
    ClothForceAndCollisionMsg(None, ZERO, None, None),
    ClothForceAndCollisionMsg(None, None, None,
                              Some(<<ParticleState(1, 0, TRUE,
                                                   <<Spacing, 0, Spacing>>)>>)) }

\* The configurations of the simulations that tick: those of Configs, and
\* one whose width axis is shorter than the particle distance
TickConfigs == Configs \cup {ClothConf(1, HeightAxisLength)}

\* A simulation after build() and the commands that fix the particles of
\* fixed and set gravity, wind and spheres.  nan is the set of the particles
\* whose coordinates are NaN.  ticks, windSteps, noisySteps, cmds, start,
\* wind and built are history: the ticks run, those in which windForce ran
\* and those in which it used the noisy wind, the commands applied since,
\* the spheres and the wind as the last command gave them, and the position
\* buffer as build() left it.
InitTick ==
  /\ InitProtocol /\ InitWorker
  /\ \E conf \in TickConfigs, g \in {ZERO, Gravity1}, w \in {ZERO, Wind1},
        spheres \in {<<>>, <<Sphere1>>, <<SphereFast>>, <<SphereLow>>} :
       LET built == ClothSimulation(conf, 0)
       IN \E fixed \in SUBSET (DOMAIN built.isPositionFixed) :
            calc =
              [wind |-> w,
               ticks |-> 0,
               sim |-> [built EXCEPT
                          !.config.gravity = g,
                          !.config.wind = w,
                          !.collisionSpheres = spheres,
                          !.isPositionFixed =
                             [k \in DOMAIN @ |-> k \in fixed]],
               op |-> "tick",
               start |-> spheres,
               particleConstraints |->
                 particleConstraints(built,
                                     connectingSecondaryNeighbors(conf)),
               lastParticlePositions |-> built.particlePositions,
               particleAccelerations |->
                 [i \in DOMAIN built.particlePositions |-> 0],
               built |-> built.particlePositions, nan |-> {},
               windSteps |-> 0, noisySteps |-> 0, cmds |-> 0]

\* The interval callback: updateSimulation(), then refreshCloth().  It is
\* taken where every particle that is not fixed is at its previous position
\* and no coordinate is NaN.
Tick ==
  /\ calc.op = "tick" /\ calc.ticks < MaxTicks
  /\ calc.sim.canRun
  /\ calc.nan = {}
  /\ {i \in DOMAIN calc.sim.particlePositions :
        /\ ~IsFixed(calc.sim, 3 * (i \div 3))
        /\ calc.lastParticlePositions[i] # calc.sim.particlePositions[i]} = {}
  /\ LET sim == calc.sim
         wf == windForce(sim, addGravity(sim, calc.particleAccelerations))
         b == simulationStep(sim,
                [particlePositions |-> sim.particlePositions,
                 particleConstraints |-> calc.particleConstraints,
                 lastParticlePositions |-> calc.lastParticlePositions,
                 particleAccelerations |-> wf.acc,
                 nan |-> calc.nan])
         spheres == [i \in 1..Len(sim.collisionSpheres) |->
                       MoveSphere(sim.collisionSpheres[i])]
         after == CollisionLoop(sim, b, spheres)
     IN calc' =
          [calc EXCEPT
             !.sim = [sim EXCEPT
                        !.windNoiseStep = wf.step,
                        !.particlePositions = after.particlePositions,
                        !.collisionSpheres = AssignSphereIds(spheres),
                        !.ticks = @ + 1,
                        !.steps = @ + 1,
                        !.encodedSteps = sim.steps + 1],
             !.lastParticlePositions = b.lastParticlePositions,
             !.particleAccelerations = b.particleAccelerations,
             !.nan = after.nan,
             !.ticks = @ + 1,
             !.windSteps = IF wf.ran THEN @ + 1 ELSE @,
             !.noisySteps = IF wf.noisy THEN @ + 1 ELSE @]
  /\ UNCHANGED machineVars

\* onmessage applies an UpdateClothForceAndCollision command
TickUpdate(u) ==
  /\ calc.op = "tick" /\ calc.cmds < MaxTickCmds
  /\ calc' = [calc EXCEPT !.sim = updateClothForceAndCollision(@, u),
                          !.cmds = @ + 1,
                          !.wind = IF Truthy(u.wind) THEN u.wind ELSE @]
  /\ UNCHANGED machineVars

NextTick ==
  \/ Tick
  \/ \E u \in TickUpdates : TickUpdate(u)

SpecTick == InitTick /\ [][NextTick]_vars

\* C18: the accumulated acceleration is reset each step: at the end of
\* every tick the acceleration of every particle is zero, so that no force
\* accumulated in a tick carries over into a later one, also for a
\* particle that was fixed during the tick and is unfixed afterwards.
C18_AccelerationZeroAfterTick ==
  (calc.op = "tick" /\ calc.ticks > 0) =>
    \A i \in DOMAIN calc.particleAccelerations :
      calc.particleAccelerations[i] = 0

\* C19: while the wind is not zero, the noise is injected into the wind of
\* a step once every 1000 steps: of any 1000 consecutive wind steps one uses
\* the noisy wind (here, of the first wind steps up to 1000, at most one),
\* and the configured wind vector itself is never changed by the injection.
C19_NoiseOncePer1000Steps ==
  calc.op = "tick" =>
    /\ calc.windSteps <= 1000 => calc.noisySteps <= 1
    /\ calc.sim.config.wind = calc.wind

\* The coordinate c lies between the coordinates a and b
Between(a, b, c) == (a <= c /\ c <= b) \/ (b <= c /\ c <= a)

\* C20: the progress accumulator of each collision sphere starts at 0, is
\* advanced by speed on every tick and stays within [0, 1] in every
\* reachable state, so that the center moves from its start toward its
\* destination and never past it or away from it.
C20_SphereProgressBounded ==
  calc.op = "tick" =>
    \A k \in 1..Len(calc.sim.collisionSpheres) :
      LET sp == calc.sim.collisionSpheres[k]
      IN /\ sp.dt = calc.ticks * sp.speed
         /\ 0 <= sp.dt /\ sp.dt <= SpeedDen
         /\ \A i \in 1..3 :
              Between(calc.start[k].sphereCenter[i], sp.sphereDestination[i],
                      sp.sphereCenter[i])

\* The three coordinates of the particle idx in the buffer positions
Coordinates(positions, idx) ==
  <<positions[idx], positions[idx + 1], positions[idx + 2]>>

\* The command u carries a new position for the particle idx of sim
CarriesNewPosition(sim, u, idx) ==
  /\ Truthy(u.fixedParticles)
  /\ \E k \in 1..Len(u.fixedParticles[1]) :
       /\ getIndex(sim.nbParticlesWidth, u.fixedParticles[1][k].particleX,
                   u.fixedParticles[1][k].particleY) = idx
       /\ Truthy(u.fixedParticles[1][k].newPosition)

MaxPasses == 2

\* Largest rest distance of the constraint, in units
MaxRest == 2

\* The unit of the lengths: 2^MaxPasses
SolveUnit == 2 ^ MaxPasses

\* The directions of the line through the two particles
SolveDirections == {<<1, 0, 0>>, <<0, 0, 0 - 1>>, <<3, 4, 0>>}

\* Two particles: the first at the origin, the second at p
TwoParticles(p, f1, f2) ==
  [particlePositions |->
     [i \in 0..5 |-> IF i < 3 THEN 0 ELSE p[i - 2]],
   isPositionFixed |-> [k \in {0, 3} |-> IF k = 0 THEN f1 ELSE f2]]

\* The constraint added between the particles at rest, and the particles
\* after setFixed(3, f2, newPosition).  start is history: the positions
\* before the first pass; passes counts the passes.
InitSolve ==
  /\ InitProtocol /\ InitWorker
  /\ \E dir \in SolveDirections, j \in 1..MaxRest, k \in 0..(MaxRest + 1),
        f1 \in BOOLEAN, f2 \in BOOLEAN :
       LET rest == TwoParticles([i \in 1..3 |-> dir[i] * SolveUnit * j],
                                f1, FALSE)
           sim == setFixed(rest, 3, f2,
                           [i \in 1..3 |-> dir[i] * SolveUnit * k])
       IN calc = [sim |-> sim, op |-> "solve",
                  start |-> sim.particlePositions,
                  particleConstraints |-> <<addConstraint(rest, 0, 3)>>,
                  nan |-> {}, passes |-> 0]

\* One iteration of the loop of simulationStep(): satisfyConstraint on the
\* constraint
SolvePass ==
  /\ calc.op = "solve" /\ calc.passes < MaxPasses
  /\ LET b == ConstraintPass(calc.sim,
                [particlePositions |-> calc.sim.particlePositions,
                 nan |-> calc.nan],
                calc.particleConstraints)
     IN calc' = [calc EXCEPT !.sim.particlePositions = b.particlePositions,
                             !.nan = b.nan,
                             !.passes = @ + 1]
  /\ UNCHANGED machineVars

NextSolve == SolvePass

SpecSolve == InitSolve /\ [][NextSolve]_vars

\* C22: when the two endpoints of a constraint coincide, the solver skips
\* the constraint: after any number of passes neither endpoint has moved
\* and no coordinate of the position buffer is NaN or infinite.
C22_CoincidentEndpointsSkipped ==
  (calc.op = "solve" /\ Position([particlePositions |-> calc.start], 0)
                          = Position([particlePositions |-> calc.start], 3)) =>
    /\ calc.nan = {}
    /\ calc.sim.particlePositions = calc.start

\* C23: in every published frame the normal of every particle is a
\* defined vector, none of its coordinates is NaN: a particle whose
\* accumulated normal has length zero is guarded and not divided by zero.
\* The first frame is the RedrawCloth the constructor posts.
C23_PublishedNormalsDefined ==
  (Built /\ calc.built.posted # <<>>) =>
    \A idx \in DOMAIN calc.built.particleNormals :
      calc.built.particleNormals[idx] # None

\* The stages of a tick, each with the one that follows it
TickStageOrder ==
  {<<"idle", "forces">>, <<"forces", "solve">>, <<"solve", "collide">>,
   <<"collide", "refresh">>, <<"refresh", "idle">>}

C25_NoDriftAtRest ==
  (/\ calc.op = "tick" /\ calc.cmds = 0
   /\ calc.sim.config.gravity = ZERO /\ calc.wind = ZERO
   /\ calc.sim.collisionSpheres = <<>>) =>
    /\ calc.sim.particlePositions = calc.built
    /\ calc.lastParticlePositions = calc.built
    /\ calc.nan = {}

(***************************************************************************)
(* Two particles and one sphere on one line through the origin.  The       *)
(* center of the sphere, its destination and the second particle are       *)
(* multiples of the direction of the line and the radius is a multiple of  *)
(* its length: every quantity of the collisions is exact.                  *)
(***************************************************************************)

\* Largest number of collision steps
MaxCollides == 2

\* Largest radius of the sphere, in lengths of the direction
MaxRadius == 2

\* Largest distance of the second particle from the first one
MaxOffset == 3

\* The sphere of radius rho whose center is at a0 and moves by half of its
\* way to a0 + 2 * e in a step, all in lengths of the direction dir
LineSphere(dir, a0, e, rho) ==
  [sphereCenter |-> [i \in 1..3 |-> dir[i] * a0],
   sphereRadius |-> Magnitude(dir) * rho,
   sphereDestination |-> [i \in 1..3 |-> dir[i] * (a0 + 2 * e)],
   speed |-> 2, dt |-> 0, id |-> 0 - 1]

InitCollide ==
  /\ InitProtocol /\ InitWorker
  /\ \E dir \in SolveDirections, a0 \in 0..1, e \in 0..1,
        rho \in 1..MaxRadius, p \in 0..MaxOffset,
        f1 \in BOOLEAN, f2 \in BOOLEAN :
       LET two == TwoParticles([i \in 1..3 |-> dir[i] * p], f1, f2)
       IN calc = [ticks |-> 0,
                  sim |-> [collisionSpheres |-> <<LineSphere(dir, a0, e, rho)>>,
                           particlePositions |-> two.particlePositions,
                           isPositionFixed |-> two.isPositionFixed],
                  op |-> "collide", nan |-> {}]

\* The collision loop of updateSimulation(): computeSphereCollision for
\* every sphere
Collide ==
  /\ calc.op = "collide" /\ calc.ticks < MaxCollides
  /\ LET spheres == [i \in 1..Len(calc.sim.collisionSpheres) |->
                       MoveSphere(calc.sim.collisionSpheres[i])]
         after == CollisionLoop(calc.sim,
                    [particlePositions |-> calc.sim.particlePositions,
                     nan |-> calc.nan],
                    spheres)
     IN calc' = [calc EXCEPT
                   !.ticks = @ + 1,
                   !.sim.collisionSpheres = spheres,
                   !.sim.particlePositions = after.particlePositions,
                   !.nan = after.nan]
  /\ UNCHANGED machineVars

NextCollide == Collide

SpecCollide == InitCollide /\ [][NextCollide]_vars

\* The vectors a and b have the same direction
SameDirection(a, b) ==
  /\ a[2] * b[3] = a[3] * b[2]
  /\ a[3] * b[1] = a[1] * b[3]
  /\ a[1] * b[2] = a[2] * b[1]
  /\ Dot(a, b) > 0

\* C26: in the collision stage a particle that is not fixed and is strictly
\* inside a sphere of radius r (its distance to the moved center is less
\* than r) ends at distance exactly r from that center, along the original
\* radial direction; a particle at distance r or more and a fixed particle
\* are not moved by the sphere.
C26_PushedOntoSphere ==
  [][(calc.op = "collide" /\ calc'.ticks # calc.ticks) =>
       \A idx \in {0, 3} :
         LET sp == calc'.sim.collisionSpheres[1]
             p == Subtract(Coordinates(calc.sim.particlePositions, idx),
                           sp.sphereCenter)
             q == Subtract(Coordinates(calc'.sim.particlePositions, idx),
                           sp.sphereCenter)
         IN IF /\ ~IsFixed(calc.sim, idx) /\ idx \notin calc.nan
               /\ Dot(p, p) < sp.sphereRadius * sp.sphereRadius
            THEN /\ idx \notin calc'.nan
                 /\ Dot(q, q) = sp.sphereRadius * sp.sphereRadius
                 /\ SameDirection(p, q)
            ELSE /\ q = p
                 /\ idx \in calc'.nan <=> idx \in calc.nan]_vars

\* The rest distance of the constraint of the two particles
RestDistance == calc.particleConstraints[1].distance

\* The distance of the two particles in the position buffer positions
Separation(positions) ==
  Magnitude(Subtract(Coordinates(positions, 3), Coordinates(positions, 0)))

\* After calc.passes passes, one at least, on the two particles: when
\* neither is fixed their displacements are equal and opposite and their
\* distance is the rest distance; when one is fixed it has not moved and
\* the difference to the rest distance has been divided by two in each pass
SolvedAsClaimed ==
  LET s1 == Coordinates(calc.start, 0)
      s2 == Coordinates(calc.start, 3)
      p1 == Coordinates(calc.sim.particlePositions, 0)
      p2 == Coordinates(calc.sim.particlePositions, 3)
      fixed == {idx \in {0, 3} : IsFixed(calc.sim, idx)}
  IN /\ calc.nan = {}
     /\ Dot(Subtract(p2, p1), Subtract(p2, p1))
          = Separation(calc.sim.particlePositions)
            * Separation(calc.sim.particlePositions)
     /\ fixed = {} =>
          /\ Subtract(p1, s1) = Subtract(s2, p2)
          /\ Subtract(p1, s1) # ZERO
          /\ Separation(calc.sim.particlePositions) = RestDistance
     /\ \A idx \in fixed :
          Coordinates(calc.sim.particlePositions, idx)
            = Coordinates(calc.start, idx)
     /\ Cardinality(fixed) = 1 =>
          Abs(Separation(calc.sim.particlePositions) - RestDistance)
            * (2 ^ calc.passes)
          = Abs(Separation(calc.start) - RestDistance)

MaxGridWidth == 8
MaxGridHeight == 7

\* The side of the large grid
LargeGrid == 257

\* The value an element of a Uint16Array holds after the number v is stored
Uint16(v) == v % 65536

\* getTriangleIndex(x, y)
getTriangleIndex(nbParticlesWidth, x, y) == nbParticlesWidth * y + x

\* buildTriangles(): the six particles of the cell (x, y), in the order in
\* which their numbers are stored
CellCorners(x, y) ==
  <<<<x, y>>, <<x + 1, y>>, <<x, y + 1>>,
    <<x + 1, y>>, <<x + 1, y + 1>>, <<x, y + 1>>>>

\* buildTriangles(): the elements the pass y of the outer loop stores in the
\* index buffer, for x; the element k is the one written by the k-th
\* triangleIndices[idx++] = pos of the pass
buildTriangles(nw, y) ==
  [k \in 1..(6 * (nw - 1)) |->
     LET corner == CellCorners((k - 1) \div 6, y)[((k - 1) % 6) + 1]
     IN Uint16(getTriangleIndex(nw, corner[1], corner[2]))]

\* The grid dimensions after build() and initBuffers(), and buildTriangles()
\* before its loop: y is the variable of the outer loop and idx the index
\* of the next element written.  triangleIndices holds the elements of the
\* index buffer that the last pass has written; those before them are not
\* written again.
InitTriangles ==
  /\ InitProtocol /\ InitWorker
  /\ \E g \in ((1..MaxGridWidth) \X (1..MaxGridHeight))
                \cup {<<LargeGrid, LargeGrid>>} :
       calc = [y |-> 0,
               nbParticlesWidth |-> g[1], nbParticlesHeight |-> g[2],
               idx |-> 0,
               op |-> "triangles", triangleIndicesCount |->
                 initBuffers(g[1], g[2]).triangleIndices, triangleIndices |-> <<>>]

\* A pass of the outer loop of buildTriangles()
BuildTrianglesRow ==
  /\ calc.op = "triangles" /\ calc.y < calc.nbParticlesHeight - 1
  /\ calc' = [calc EXCEPT
                !.triangleIndices = buildTriangles(calc.nbParticlesWidth,
                                                   calc.y),
                !.y = @ + 1,
                !.idx = @ + 6 * (calc.nbParticlesWidth - 1)]
  /\ UNCHANGED machineVars

NextTriangles == BuildTrianglesRow

SpecTriangles == InitTriangles /\ [][NextTriangles]_vars

\* C28: for every grid size the triangle index list holds, for each cell
\* (x, y) with 0 <= x < w - 1 and 0 <= y < h - 1 taken row by row, the two
\* triangles (x,y)-(x+1,y)-(x,y+1) and (x+1,y)-(x+1,y+1)-(x,y+1) written as
\* particle numbers y * w + x; it has 6 * (w - 1) * (h - 1) entries, and
\* each stored entry is the number of the intended particle, which exists.
\* Stated on the row of cells written last, which ends at the index idx.
C28_TriangleIndexList ==
  calc.op = "triangles" =>
    LET w == calc.nbParticlesWidth
        h == calc.nbParticlesHeight
        y == calc.y - 1
        number(p) == p[2] * w + p[1]
    IN /\ calc.idx = 6 * (w - 1) * calc.y
       /\ calc.idx <= calc.triangleIndicesCount
       /\ calc.y >= h - 1 => calc.idx = 6 * (w - 1) * (h - 1)
       /\ calc.y > 0 =>
            /\ Len(calc.triangleIndices) = 6 * (w - 1)
            /\ \A x \in 0..(w - 2) :
                 /\ calc.triangleIndices[6 * x + 1] = number(<<x, y>>)
                 /\ calc.triangleIndices[6 * x + 2] = number(<<x + 1, y>>)
                 /\ calc.triangleIndices[6 * x + 3] = number(<<x, y + 1>>)
                 /\ calc.triangleIndices[6 * x + 4] = number(<<x + 1, y>>)
                 /\ calc.triangleIndices[6 * x + 5] = number(<<x + 1, y + 1>>)
                 /\ calc.triangleIndices[6 * x + 6] = number(<<x, y + 1>>)
            /\ \A k \in DOMAIN calc.triangleIndices :
                 calc.triangleIndices[k] \in 0..(w * h - 1)

(***************************************************************************)
(* The integration of two particles that no constraint links, from every   *)
(* combination of a velocity and an acceleration.                          *)
(***************************************************************************)

\* Largest number of integration steps
MaxSteps == 2

\* The differences between the position and the previous position of a
\* particle before the first step
StepVelocities == {ZERO, <<100, 0, 0>>, <<0, 0 - 200, 100>>, <<7, 0, 0 - 3>>}

\* The accelerations of a particle before the first step, in the unit of
\* the positions for one timeStepPerFrame
StepAccelerations == {ZERO, <<0, 0, 1>>, <<2, 0, 0 - 1>>, <<0, 0 - 4, 0>>}

\* Two particles, of which f1 and f2 say whether they are fixed, with the
\* same velocity and acceleration
InitIntegrate ==
  /\ InitProtocol /\ InitWorker
  /\ \E v \in StepVelocities, a \in StepAccelerations,
        f1 \in BOOLEAN, f2 \in BOOLEAN :
       LET two == TwoParticles(<<Spacing, 0, 0>>, f1, f2)
       IN calc = [ticks |-> 0, sim |-> two, op |-> "integrate",
                  lastParticlePositions |->
                    [i \in 0..5 |-> two.particlePositions[i] - v[(i % 3) + 1]],
                  particleAccelerations |-> [i \in 0..5 |-> a[(i % 3) + 1]]]

\* simulationStep(), where particleConstraints is empty
Integrate ==
  /\ calc.op = "integrate" /\ calc.ticks < MaxSteps
  /\ LET b == simulationStep(calc.sim,
                [particlePositions |-> calc.sim.particlePositions,
                 particleConstraints |-> <<>>,
                 lastParticlePositions |-> calc.lastParticlePositions,
                 particleAccelerations |-> calc.particleAccelerations,
                 nan |-> {}])
     IN calc' = [calc EXCEPT
                   !.ticks = @ + 1,
                   !.sim.particlePositions = b.particlePositions,
                   !.lastParticlePositions = b.lastParticlePositions,
                   !.particleAccelerations = b.particleAccelerations]
  /\ UNCHANGED machineVars

NextIntegrate == Integrate

SpecIntegrate == InitIntegrate /\ [][NextIntegrate]_vars

\* C29: for every particle that is not fixed one integration step sets, per
\* coordinate, next = current + (current - previous) * (1 - damping)
\* + acceleration * dt^2 (here rounded down to the unit of the positions,
\* with damping = 1/100 and acceleration * dt^2 in that unit), stores the
\* old current as previous and zeroes the acceleration; in particular a
\* particle at rest (previous = current) moves by exactly
\* acceleration * dt^2 in one step.
C29_VerletStep ==
  [][(calc.op = "integrate" /\ calc'.ticks # calc.ticks) =>
       \A i \in 0..5 :
         ~IsFixed(calc.sim, 3 * (i \div 3)) =>
           LET x == calc.sim.particlePositions[i]
               ox == calc.lastParticlePositions[i]
               a == calc.particleAccelerations[i]
               next == calc'.sim.particlePositions[i]
               exact == 100 * x + 99 * (x - ox) + 100 * a
           IN /\ 100 * next <= exact /\ exact < 100 * next + 100
              /\ x = ox => next - x = a
              /\ calc'.lastParticlePositions[i] = x
              /\ calc'.particleAccelerations[i] = 0]_vars

\* Two steps have run on a free particle that had a velocity and an
\* acceleration: it moves on without acceleration
C29_Witness ==
  /\ calc.op = "integrate" /\ calc.ticks = MaxSteps
  /\ ~IsFixed(calc.sim, 3)
  /\ Coordinates(calc.particleAccelerations, 3) = ZERO
  /\ calc.sim.particlePositions[3] - calc.lastParticlePositions[3] > 90

\* C30: on the consumer side the ClothPrimitive of a cloth is created at
\* most once, on the first RedrawCloth message, and only after the
\* ClothBuilded message has copied the grid dimensions, the center and the
\* radius into the Cloth, so that its bounding sphere is built from the
\* center and radius the worker computed; later RedrawCloth messages only
\* refresh the buffers of that same primitive.
C30_PrimitiveCreatedOnce ==
  [][harness = "cloth" =>
       /\ cloth'.primitivesAdded <= 1
       /\ cloth'.primitivesAdded # cloth.primitivesAdded =>
            /\ outbox # <<>> /\ Head(outbox).cmd = "RedrawCloth"
            /\ cloth.frameRead = NoRead
            /\ cloth'.primitive /\ cloth'.scenePrimitives = 1
            /\ LET sim == sims[Head(outbox).particlePositions]
               IN /\ cloth.nbParticlesWidth = sim.nbParticlesWidth
                  /\ cloth.nbParticlesHeight = sim.nbParticlesHeight
                  /\ cloth.center = sim.center
                  /\ cloth.radius = sim.radius
                  /\ cloth'.boundingSphere
                       = [center |-> sim.center, radius |-> sim.radius]
       /\ cloth'.primitivesAdded = cloth.primitivesAdded =>
            /\ cloth'.boundingSphere = cloth.boundingSphere
            /\ cloth'.scenePrimitives <= cloth.scenePrimitives
            /\ cloth'.primitive => cloth.primitive]_vars

\* The RedrawCloth message of a tick has been handled by the Cloth, which
\* has had its primitive since the RedrawCloth of the constructor
C30_Witness ==
  /\ harness = "cloth"
  /\ cloth.primitive /\ cloth.primitivesAdded = 1
  /\ cloth.frameRead.emitted = 1
  /\ cloth.boundingSphere.radius > 1

====
